---- MODULE Spec2Model ----
(***************************************************************************)
(* A model of the xstd iterator adaptors of PSTL (zip, strided, range),    *)
(* of the tuple algorithms zip is built on, and of the benchmark functors  *)
(* that hand the adaptors to the policy-parameterised std algorithms.      *)
(*                                                                         *)
(* An iterator into a container is a record [c |-> container, p |-> pos],  *)
(* pos counted from the container's begin(); a std::tuple is a sequence.   *)
(* A callable passed to a tuple algorithm is a record [fn |-> name, ...]   *)
(* holding its captures; call1 and call2 apply it.                         *)
(***************************************************************************)
EXTENDS Integers, Sequences, FiniteSets, TLC

\* ------------------------------------------------------------------ bounds
MaxArity == 3      \* most sequences zipped together
MaxLen == 5        \* longest zipped container
MaxInc == 2        \* largest |n| of a += n / -= n
MaxWrites == 1     \* assignments through a dereferenced zip cursor per traversal
MaxSeqLen == 7     \* longest sequence behind a strided view
MaxStride == 3     \* largest stride
MaxVal == 4        \* range bounds first, last lie in -MaxVal..MaxVal
MaxStep == 3       \* largest |step| of a range
MaxN == 3          \* most elements a SAXPY functor processes
MaxViewLen == 3    \* longest container / farthest last of a view two cursors share
MaxViewStep == 2   \* largest |step| or stride of such a view
MaxTuple == 3      \* largest arity of a tuple handed to a tuple algorithm
UIntBits == 16     \* width given to unsigned int (32 in the build)
MaxPos == 1        \* a pair of cursors is built at values / positions 0..MaxPos
MaxPairStep == 2   \* with steps / strides in -MaxPairStep..MaxPairStep
MaxMoves == 1      \* and the first of them is moved at most MaxMoves times
MaxFrames == 3     \* calls the stack has room for
MaxClock == 4      \* the clock is read at times 0..MaxClock
MaxCycles == 2     \* largest N of Runner::execute<N>

\* ------------------------------------------------------- program constants
A == 5             \* the scalar a of the SAXPY benchmarks

VARIABLES
    \* --- zip: the zipped containers, the view and a traversal of it
    seqs,          \* the caller's containers, seqs[c][j] the element at index j-1
    first_, last_, \* zip_proxy::first_, zip_proxy::last_
    it,            \* the traversing cursor (zip_iterator::iterators_)
    tpc,           \* position of the traversal loop
    out,           \* the value tuples the traversal has yielded
    touched,       \* every reference a dereference has produced
    refs,          \* the reference tuple of the current iteration
    nwrites, before, wr,   \* the last assignment through refs: memory before it, what was assigned
    \* --- zip: two cursors obtained from the view, moved and compared
    cur_x, cur_y,
    x0,            \* cur_x as it was obtained
    offset,        \* net signed increment applied to cur_x since
    compared,      \* the friend operators have been evaluated on (cur_x, cur_y)
    r_eq, r_ne, r_lt, r_diff,
    \* --- strided: the wrapped container, the view and a traversal of it
    s_seq,                      \* the caller's container
    s_first, s_last, s_stride,  \* strided_proxy::first_, last_, stride_
    s_it,                       \* the traversing cursor [iterator_, stride_]
    s_pc, s_out, s_touched,     \* loop position, values yielded, positions dereferenced
    s_size,                     \* what strided_proxy::size() returned (once s_pc = "sized")
    \* --- range: the view and a traversal of it
    g_first, g_last, g_step,    \* range_proxy::first_, last_, step_
    g_it,                       \* the traversing cursor [value_, step_]
    g_pc, g_out,                \* loop position, values yielded
    g_cmp,                      \* the last comparison of two cursors and its results
    \* --- the SAXPY and STRIDED_SAXPY functors under Runner::execute
    a_, x_, y_, temp_, answer_, \* the functor's fields
    incx_, incy_,               \* STRIDED_SAXPY's strides
    x_in,                       \* x_ as the constructor received it
    policy,                     \* the execution policy handed to the algorithm
    fpc,                        \* reset / call / run / done
    task,                       \* per element index: todo / loaded / done
    reg,                        \* per element index: the functor invocation's pending store
    correct,                    \* what check() returned
    \* --- one view (range, strided or zip) traversed by two cursors
    v_kind,                     \* which adaptor built the view
    v_view, v_view0,            \* the proxy's fields, now and as constructed
    v_mem,                      \* the containers under a strided or zip view
    v_cur,                      \* the two cursors
    v_pc, v_out,                \* per cursor: loop position, values yielded
    v_assigned,                 \* per cursor: whether it has been assigned begin() again
    \* --- one call of a tuple algorithm
    u_op,                       \* the algorithm called ("none" before the call)
    u_t1, u_t2,                 \* the argument tuples
    u_types,                    \* the element types of u_t1 (min and max)
    u_p,                        \* the callable handed in
    u_res,                      \* what the call left: the tuples, the callable, the value returned
    \* --- two range or two strided cursors and the operators applied to them
    k_kind,                     \* "range" or "strided"
    k_args,                     \* the constructor arguments of the two cursors
    k_x, k_y,                   \* the cursors
    k_pc,                       \* "new", "ready", or "aborted" after a failed assert / a trap
    k_op,                       \* the last operator applied
    k_n,                        \* its integer operand
    k_res,                      \* its outcome
    k_moves,                    \* the number of operators that moved k_x
    \* --- a call of zip_iterator::operator++(int) / operator--(int)
    q_it,                       \* the zip cursor the operator is called on (*this)
    q_old,                      \* that cursor before the call
    q_op,                       \* "post_inc" or "post_dec"
    q_stack,                    \* the frames of the calls in progress, innermost last
    q_pc,                       \* "idle", "called", "returned" or "crashed"
    q_ret,                      \* the cursor the call returned
    \* --- a StopWatch and its clock
    watch,                      \* [start_, duration_, is_running_]
    now,                        \* clock::now()
    w_op,                       \* the last member function called
    w_ret,                      \* what the last elapsed_seconds() returned
    w_ran,                      \* time passed while running since construction / reset / restart
    \* --- Runner::execute<N>(policy, functor)
    n_N,                        \* the template argument N
    n_checks,                   \* what functor.check() answers in each cycle
    n_i,                        \* the loop variable i
    n_pc,                       \* the statement execute is at
    n_watch, n_now,             \* the local StopWatch and its clock
    n_correct, n_times,         \* the vectors correct and times
    n_calls,                    \* the functor's member functions called so far, in order
    n_timed,                    \* per cycle, the time passed between restart() and stop()
    n_ret                       \* what execute returned

zipVars == <<seqs, first_, last_, it, tpc, out, touched, refs, nwrites, before, wr,
             cur_x, cur_y, x0, offset, compared, r_eq, r_ne, r_lt, r_diff>>

stridedVars == <<s_seq, s_first, s_last, s_stride, s_it, s_pc, s_out, s_touched, s_size>>

rangeVars == <<g_first, g_last, g_step, g_it, g_pc, g_out, g_cmp>>

saxpyVars == <<a_, x_, y_, temp_, answer_, incx_, incy_, x_in, policy, fpc, task, reg, correct>>

viewVars == <<v_kind, v_view, v_view0, v_mem, v_cur, v_pc, v_out, v_assigned>>

tupleVars == <<u_op, u_t1, u_t2, u_types, u_p, u_res>>

pairVars == <<k_kind, k_args, k_x, k_y, k_pc, k_op, k_n, k_res, k_moves>>

postfixVars == <<q_it, q_old, q_op, q_stack, q_pc, q_ret>>

watchVars == <<watch, now, w_op, w_ret, w_ran>>

runnerVars == <<n_N, n_checks, n_i, n_pc, n_watch, n_now, n_correct, n_times, n_calls, n_timed, n_ret>>

vars == <<zipVars, stridedVars, rangeVars, saxpyVars, viewVars, tupleVars,
          pairVars, postfixVars, watchVars, runnerVars>>

nonZipVars == <<stridedVars, rangeVars, saxpyVars, viewVars, tupleVars,
    pairVars, postfixVars, watchVars, runnerVars>>
nonStridedVars == <<zipVars, rangeVars, saxpyVars, viewVars, tupleVars,
    pairVars, postfixVars, watchVars, runnerVars>>
nonRangeVars == <<zipVars, stridedVars, saxpyVars, viewVars, tupleVars,
    pairVars, postfixVars, watchVars, runnerVars>>
nonSaxpyVars == <<zipVars, stridedVars, rangeVars, viewVars, tupleVars,
    pairVars, postfixVars, watchVars, runnerVars>>
nonViewVars == <<zipVars, stridedVars, rangeVars, saxpyVars, tupleVars,
    pairVars, postfixVars, watchVars, runnerVars>>
nonTupleVars == <<zipVars, stridedVars, rangeVars, saxpyVars, viewVars,
    pairVars, postfixVars, watchVars, runnerVars>>
nonPairVars == <<zipVars, stridedVars, rangeVars, saxpyVars, viewVars,
    tupleVars, postfixVars, watchVars, runnerVars>>
nonPostfixVars == <<zipVars, stridedVars, rangeVars, saxpyVars, viewVars,
    tupleVars, pairVars, watchVars, runnerVars>>
nonWatchVars == <<zipVars, stridedVars, rangeVars, saxpyVars, viewVars,
    tupleVars, pairVars, postfixVars, runnerVars>>
nonRunnerVars == <<zipVars, stridedVars, rangeVars, saxpyVars, viewVars,
    tupleVars, pairVars, postfixVars, watchVars>>

\* ------------------------------------------------------- integer helpers
Abs(n) == IF n < 0 THEN -n ELSE n

\* C++ integer division truncates toward zero (\div floors)
FloorDiv(a, b) == a \div b
TruncDiv(a, b) ==
    IF b = 0 THEN 0
    ELSE IF (a >= 0) = (b > 0) THEN Abs(a) \div Abs(b)
    ELSE -(Abs(a) \div Abs(b))

\* ------------------------------------------------- the callables of zip.hpp
\* the lambdas zip_iterator passes to for_each / transform, applied to one
\* component iterator
call1(f, iter) ==
    CASE f.fn = "post_inc"     -> [iter EXCEPT !.p = @ + 1]
      [] f.fn = "post_dec"     -> [iter EXCEPT !.p = @ - 1]
      [] f.fn = "plus_assign"  -> [iter EXCEPT !.p = @ + f.inc]
      [] f.fn = "minus_assign" -> [iter EXCEPT !.p = @ - f.inc]
      [] f.fn = "deref"        -> [c |-> iter.c, p |-> iter.p]
      [] f.fn = "subscript"    -> [c |-> iter.c, p |-> iter.p + f.n]
      [] f.fn = "identity"     -> iter
      [] f.fn = "negate"       -> -iter
      [] f.fn = "below"        -> iter < f.k

\* the binary lambdas of the friend operators, applied to a pair of
\* corresponding component iterators
call2(f, a, b) ==
    CASE f.fn = "eq"    -> (a.p = b.p)
      [] f.fn = "lt"    -> (a.p < b.p)
      [] f.fn = "minus" -> (a.p - b.p)
      [] f.fn = "plus"  -> a + b
      [] f.fn = "less"  -> a < b
      [] f.fn = "equal" -> a = b

\* ------------------------------------------------------- tuple algorithms
\* (mutation) the functor reaches the first element only
for_each_first(t, f) == [i \in 1..Len(t) |-> IF i = 1 THEN call1(f, t[i]) ELSE t[i]]

for_each(t, f) == [i \in 1..Len(t) |-> call1(f, t[i])]

\* (mutation) the index sequence is one short
transform_short(inputs, function) == [i \in 1..(Len(inputs) - 1) |-> call1(function, inputs[i])]

transform(inputs, function) == [i \in 1..Len(inputs) |-> call1(function, inputs[i])]

transform2(t1, t2, function) ==
    [i \in 1..Len(t1) |-> call2(function, t1[i], t2[i])]

\* detail::transform_impl (two tuples) expands Ts1 and Ts2 in one pack
\* expansion: a call with tuples of different arity has no instantiation
transform2_instantiates(t1, t2) == Len(t1) = Len(t2)

\* the fold expressions (p(xs) && ...) and (p(xs) || ...), left to right
RECURSIVE fold_and(_)
fold_and(bs) == IF bs = <<>> THEN TRUE ELSE Head(bs) /\ fold_and(Tail(bs))

RECURSIVE fold_or(_)
fold_or(bs) == IF bs = <<>> THEN FALSE ELSE Head(bs) \/ fold_or(Tail(bs))

all_of(t, p) == fold_and(transform(t, p))
any_of(t, p) == fold_or(transform(t, p))
\* (mutation) none_of negates the conjunction
none_of_not_all(t, p) == ~fold_and(transform(t, p))

none_of(t, p) == ~fold_or(transform(t, p))

all_of2(t1, t2, p) == all_of(transform2(t1, t2, p), [fn |-> "identity"])

\* (mutation) the two-tuple any_of reduces with all_of
any_of2_all(t1, t2, p) == all_of(transform2(t1, t2, p), [fn |-> "identity"])

any_of2(t1, t2, p) == any_of(transform2(t1, t2, p), [fn |-> "identity"])

\* std::min / std::max over the initializer list of the tuple's elements
\* (mutation) the reduction keeps the first element
min_head(t) == Head(t)

RECURSIVE min(_)
min(t) ==
    IF Len(t) = 1 THEN t[1]
    ELSE LET m == min(Tail(t)) IN IF m < Head(t) THEN m ELSE Head(t)

RECURSIVE max(_)
max(t) ==
    IF Len(t) = 1 THEN t[1]
    ELSE LET m == max(Tail(t)) IN IF Head(t) < m THEN m ELSE Head(t)

\* ------------------------------------------------------------ zip_iterator
zip_iterator(positions) == [i \in 1..Len(positions) |-> [c |-> i, p |-> positions[i]]]

zip_pre_inc(iterators) == for_each(iterators, [fn |-> "post_inc"])
zip_pre_dec(iterators) == for_each(iterators, [fn |-> "post_dec"])
zip_plus_assign(iterators, inc) == for_each(iterators, [fn |-> "plus_assign", inc |-> inc])
zip_plus(x, y) == zip_plus_assign(x, y)
zip_minus_assign(iterators, inc) == for_each(iterators, [fn |-> "minus_assign", inc |-> inc])

\* (mutation) operator* yields copies of the elements, as a value_tuple would
zip_deref_copy(iterators) == [i \in 1..Len(iterators) |-> [c |-> 0, p |-> 0, v |-> 0]]

\* operator* : a tuple of references, one per zipped sequence
zip_deref(iterators) == transform(iterators, [fn |-> "deref"])

\* (mutation) cursors are equal only when every component pair is
zip_eq_all(x, y) == all_of2(x, y, [fn |-> "eq"])

zip_eq(x, y) == any_of2(x, y, [fn |-> "eq"])

zip_ne(x, y) == ~zip_eq(x, y)

\* (mutation) x < y as soon as one component pair is ordered
zip_lt_any(x, y) == any_of2(x, y, [fn |-> "lt"])

zip_lt(x, y) == all_of2(x, y, [fn |-> "lt"])

\* (mutation) the distance of the first component pair, whose type
\* difference_type is
zip_minus_first(x, y) == transform2(x, y, [fn |-> "minus"])[1]

zip_minus(x, y) == min(transform2(x, y, [fn |-> "minus"]))

\* operator[] : declared to return value_tuple, so the references the lambda
\* yields are converted to copies of the elements (temporaries, c = 0)
value_tuple(reference_tuple, mem) ==
    [i \in 1..Len(reference_tuple) |->
        [c |-> 0, p |-> 0, v |-> mem[reference_tuple[i].c][reference_tuple[i].p + 1]]]

zip_subscript(iterators, n, mem) ==
    value_tuple(transform(iterators, [fn |-> "subscript", n |-> n]), mem)

\* zip_proxy and zip(): the view holds a cursor at every begin() and one at
\* every end()
zip(args) ==
    [first_ |-> zip_iterator([i \in 1..Len(args) |-> 0]),
     last_  |-> zip_iterator([i \in 1..Len(args) |-> Len(args[i])])]

zip_begin == first_
zip_end == last_

\* ------------------------------------------------ memory behind references
\* reading and assigning through a reference; a temporary (c = 0) holds its
\* own value and assigning to it reaches no container
Load(mem, r) == IF r.c = 0 THEN r.v ELSE mem[r.c][r.p + 1]

Store(mem, r, v) == IF r.c = 0 THEN mem ELSE [mem EXCEPT ![r.c][r.p + 1] = v]

RECURSIVE StoreAll(_, _, _)
StoreAll(mem, rs, vs) ==
    IF rs = <<>> THEN mem
    ELSE StoreAll(Store(mem, Head(rs), Head(vs)), Tail(rs), Tail(vs))

Dereferenceable(mem, r) == IF r.c = 0 THEN TRUE ELSE r.p >= 0 /\ r.p < Len(mem[r.c])

\* --------------------------------------------------- strided_iterator
\* a strided cursor: the wrapped iterator and the stride
strided_iterator(iterator, stride) == [iterator_ |-> iterator, stride_ |-> stride]

strided_pre_inc(x) == [x EXCEPT !.iterator_.p = @ + x.stride_]
strided_pre_dec(x) == [x EXCEPT !.iterator_.p = @ - x.stride_]
\* (mutation) operator+= advances by inc elements of the underlying sequence
strided_plus_assign_unit(x, inc) == [x EXCEPT !.iterator_.p = @ + inc]

strided_plus_assign(x, inc) == [x EXCEPT !.iterator_.p = @ + inc * x.stride_]
strided_minus_assign(x, inc) == [x EXCEPT !.iterator_.p = @ - inc * x.stride_]
strided_plus(x, y) == strided_plus_assign(x, y)

\* operator[] and operator* forward the wrapped iterator's reference
strided_subscript(x, n) == [c |-> x.iterator_.c, p |-> x.iterator_.p + n * x.stride_]
strided_deref(x) == [c |-> x.iterator_.c, p |-> x.iterator_.p]

\* std::distance(y.iterator_, x.iterator_) / x.stride_
strided_minus(x, y) == TruncDiv(x.iterator_.p - y.iterator_.p, x.stride_)

\* (mutation) cursors are equal only when the wrapped iterators are
strided_eq_exact(x, y) == x.iterator_.p = y.iterator_.p

strided_eq(x, y) == strided_minus(x, y) = 0

strided_ne(x, y) == ~strided_eq(x, y)

strided_lt(x, y) == TruncDiv(y.iterator_.p - x.iterator_.p, x.stride_) > 0

\* strided_proxy
strided_begin(first, stride) == strided_iterator(first, stride)
strided_end(last, stride) == strided_iterator(last, stride)
strided_size(first, last, stride) == TruncDiv(last.p - first.p, stride)

\* --------------------------------------------------------- range_iterator
range_iterator(value, step) == [value_ |-> value, step_ |-> step]

range_pre_inc(x) == [x EXCEPT !.value_ = @ + x.step_]
range_pre_dec(x) == [x EXCEPT !.value_ = @ - x.step_]
range_plus_assign(x, inc) == [x EXCEPT !.value_ = @ + inc * x.step_]
range_minus_assign(x, inc) == [x EXCEPT !.value_ = @ - inc * x.step_]
range_subscript(x, n) == x.value_ + n * x.step_
range_deref(x) == x.value_

\* (mutation) cursors are equal only when their values are
range_eq_exact(x, y) == x.value_ = y.value_

range_eq(x, y) ==
    IF x.step_ > 0 THEN (y.value_ < x.value_) \/ (y.value_ = x.value_)
    ELSE x.value_ < y.value_

range_ne(x, y) == ~range_eq(x, y)

range_lt(x, y) == x.value_ < y.value_

range_minus(x, y) == TruncDiv(x.value_ - y.value_, x.step_)

\* range_proxy
range_begin(first, step) == range_iterator(first, step)
range_end(last, step) == range_iterator(last, step)

\* ------------------------------------------------------ zip specification
\* The caller's containers: container c holds Elem(c, 0), Elem(c, 1), ...
Elem(c, j) == 10 * c + j

Container(c, len) == [j \in 1..len |-> Elem(c, j - 1)]

WriteBase == {100, 200}

NoResult == "none"
NoWrite == [at |-> -1, vals |-> <<>>]
NotBuilt == <<>>

MinLen == min([c \in 1..Len(seqs) |-> Len(seqs[c])])

\* a cursor may rest anywhere from begin() to end() of every container
InBounds(iterators) ==
    \A i \in 1..Len(iterators) : iterators[i].p \in 0..Len(seqs[i])

\* the state of the adaptors a specification leaves alone
ParkZip ==
    /\ seqs = <<>> /\ first_ = <<>> /\ last_ = <<>> /\ it = <<>>
    /\ tpc = "idle" /\ out = <<>> /\ touched = {} /\ refs = <<>>
    /\ nwrites = 0 /\ before = <<>> /\ wr = NoWrite
    /\ cur_x = NotBuilt /\ cur_y = NotBuilt /\ x0 = NotBuilt /\ offset = 0
    /\ compared = FALSE
    /\ r_eq = NoResult /\ r_ne = NoResult /\ r_lt = NoResult /\ r_diff = NoResult

ParkStrided ==
    /\ s_seq = <<>> /\ s_first = 0 /\ s_last = 0 /\ s_stride = 0
    /\ s_it = 0 /\ s_pc = "idle" /\ s_out = <<>> /\ s_touched = {} /\ s_size = 0

NotCompared == [valid |-> FALSE, x |-> 0, y |-> 0, eq |-> FALSE, ne |-> FALSE, diff |-> 0]

ParkRange ==
    /\ g_first = 0 /\ g_last = 0 /\ g_step = 0
    /\ g_it = 0 /\ g_pc = "idle" /\ g_out = <<>> /\ g_cmp = NotCompared

ParkViews ==
    /\ v_kind = "none" /\ v_view = <<>> /\ v_view0 = <<>> /\ v_mem = <<>>
    /\ v_cur = <<>> /\ v_pc = <<>> /\ v_out = <<>> /\ v_assigned = <<>>

NoCall == [t1 |-> <<>>, t2 |-> <<>>, p |-> [fn |-> "none"], val |-> 0]

ParkTuple ==
    /\ u_op = "idle" /\ u_t1 = <<>> /\ u_t2 = <<>> /\ u_types = <<>>
    /\ u_p = [fn |-> "none"] /\ u_res = NoCall

ParkCursor ==
    /\ k_kind = "none" /\ k_args = <<>> /\ k_x = 0 /\ k_y = 0 /\ k_pc = "idle"
    /\ k_op = "none" /\ k_n = 0 /\ k_res = 0 /\ k_moves = 0

ParkPostfix ==
    /\ q_it = <<>> /\ q_old = <<>> /\ q_op = "none" /\ q_stack = <<>>
    /\ q_pc = "idle" /\ q_ret = <<>>

ParkWatch ==
    /\ watch = 0 /\ now = 0 /\ w_op = "none" /\ w_ret = 0 /\ w_ran = 0

ParkRunner ==
    /\ n_N = 0 /\ n_checks = <<>> /\ n_i = 0 /\ n_pc = "idle" /\ n_watch = 0 /\ n_now = 0
    /\ n_correct = <<>> /\ n_times = <<>> /\ n_calls = <<>> /\ n_timed = <<>> /\ n_ret = "none"

ParkSaxpy ==
    /\ a_ = 0 /\ x_ = <<>> /\ y_ = <<>> /\ temp_ = <<>> /\ answer_ = <<>>
    /\ incx_ = 0 /\ incy_ = 0 /\ x_in = <<>> /\ policy = "none" /\ fpc = "idle"
    /\ task = <<>> /\ reg = <<>> /\ correct = FALSE

InitZip ==
    /\ \E n \in 1..MaxArity : \E lens \in [1..n -> 0..MaxLen] :
          seqs = [c \in 1..n |-> Container(c, lens[c])]
    /\ first_ = zip(seqs).first_
    /\ last_ = zip(seqs).last_
    /\ it = first_
    /\ tpc \in {"test", "probe"}
    /\ out = <<>>
    /\ touched = {}
    /\ refs = <<>>
    /\ nwrites = 0 /\ before = seqs /\ wr = NoWrite
    /\ cur_x = NotBuilt /\ cur_y = NotBuilt /\ x0 = NotBuilt
    /\ offset = 0
    /\ compared = FALSE
    /\ r_eq = NoResult /\ r_ne = NoResult /\ r_lt = NoResult /\ r_diff = NoResult
    /\ ParkStrided /\ ParkRange /\ ParkSaxpy /\ ParkViews /\ ParkTuple
    /\ ParkCursor /\ ParkPostfix /\ ParkWatch /\ ParkRunner

travVars == <<it, tpc, out, touched, refs>>
writeVars == <<seqs, nwrites, before, wr>>
proxyVars == <<first_, last_>>
cursorVars == <<cur_x, cur_y, x0, offset>>
resultVars == <<compared, r_eq, r_ne, r_lt, r_diff>>

\* for (it = begin(); it != end(); ++it) { refs = *it; ... }
LoopTest ==
    /\ tpc = "test"
    /\ tpc' = IF zip_ne(it, zip_end) THEN "deref" ELSE "done"
    /\ UNCHANGED <<nonZipVars, it, out, touched, refs, writeVars, proxyVars, cursorVars, resultVars>>

LoopDeref ==
    /\ tpc = "deref"
    /\ refs' = zip_deref(it)
    /\ touched' = touched \cup {refs'[i] : i \in 1..Len(refs')}
    /\ out' = Append(out, [i \in 1..Len(refs') |->
                  IF Dereferenceable(seqs, refs'[i]) THEN Load(seqs, refs'[i]) ELSE "UB"])
    /\ tpc' = "body"
    /\ UNCHANGED <<nonZipVars, it, writeVars, proxyVars, cursorVars, resultVars>>

\* the loop body leaves the elements alone ...
LoopBodyRead ==
    /\ tpc = "body"
    /\ tpc' = "inc"
    /\ UNCHANGED <<nonZipVars, it, out, touched, refs, writeVars, proxyVars, cursorVars, resultVars>>

\* ... or assigns std::get<i>(refs) = value for every component
LoopBodyAssign ==
    /\ tpc = "body"
    /\ nwrites < MaxWrites
    /\ \A i \in 1..Len(refs) : Dereferenceable(seqs, refs[i])
    /\ \E w \in WriteBase :
          LET vals == [i \in 1..Len(refs) |-> w + i] IN
          /\ seqs' = StoreAll(seqs, refs, vals)
          /\ wr' = [at |-> Len(out) - 1, vals |-> vals]
    /\ before' = seqs
    /\ nwrites' = nwrites + 1
    /\ tpc' = "inc"
    /\ UNCHANGED <<nonZipVars, it, out, touched, refs, proxyVars, cursorVars, resultVars>>

LoopInc ==
    /\ tpc = "inc"
    /\ it' = zip_pre_inc(it)
    /\ tpc' = "test"
    /\ UNCHANGED <<nonZipVars, out, touched, refs, writeVars, proxyVars, cursorVars, resultVars>>

\* after the traversal: x = end(), y = begin(), ready for x - y
MeasureView ==
    /\ tpc = "done"
    /\ cur_x = NotBuilt
    /\ cur_x' = zip_end /\ cur_y' = zip_begin
    /\ x0' = zip_end
    /\ UNCHANGED <<nonZipVars, offset, travVars, writeVars, proxyVars, resultVars>>

\* without a traversal: two cursors obtained from the view
Obtain ==
    /\ tpc = "probe"
    /\ cur_x = NotBuilt
    /\ cur_x' \in {zip_begin, zip_end}
    /\ cur_y' \in {zip_begin, zip_end}
    /\ x0' = cur_x'
    /\ UNCHANGED <<nonZipVars, offset, travVars, writeVars, proxyVars, resultVars>>

PreInc ==
    /\ cur_x # NotBuilt
    /\ InBounds(zip_pre_inc(cur_x))
    /\ cur_x' = zip_pre_inc(cur_x)
    /\ offset' = offset + 1
    /\ compared' = FALSE
    /\ r_eq' = NoResult /\ r_ne' = NoResult /\ r_lt' = NoResult /\ r_diff' = NoResult
    /\ UNCHANGED <<nonZipVars, cur_y, x0, travVars, writeVars, proxyVars>>

PreDec ==
    /\ cur_x # NotBuilt
    /\ InBounds(zip_pre_dec(cur_x))
    /\ cur_x' = zip_pre_dec(cur_x)
    /\ offset' = offset - 1
    /\ compared' = FALSE
    /\ r_eq' = NoResult /\ r_ne' = NoResult /\ r_lt' = NoResult /\ r_diff' = NoResult
    /\ UNCHANGED <<nonZipVars, cur_y, x0, travVars, writeVars, proxyVars>>

PlusAssign ==
    /\ cur_x # NotBuilt
    /\ \E n \in -MaxInc..MaxInc :
          /\ InBounds(zip_plus_assign(cur_x, n))
          /\ cur_x' = zip_plus_assign(cur_x, n)
          /\ offset' = offset + n
    /\ compared' = FALSE
    /\ r_eq' = NoResult /\ r_ne' = NoResult /\ r_lt' = NoResult /\ r_diff' = NoResult
    /\ UNCHANGED <<nonZipVars, cur_y, x0, travVars, writeVars, proxyVars>>

MinusAssign ==
    /\ cur_x # NotBuilt
    /\ \E n \in -MaxInc..MaxInc :
          /\ InBounds(zip_minus_assign(cur_x, n))
          /\ cur_x' = zip_minus_assign(cur_x, n)
          /\ offset' = offset - n
    /\ compared' = FALSE
    /\ r_eq' = NoResult /\ r_ne' = NoResult /\ r_lt' = NoResult /\ r_diff' = NoResult
    /\ UNCHANGED <<nonZipVars, cur_y, x0, travVars, writeVars, proxyVars>>

\* x == y, x != y, x < y, x - y
Compare ==
    /\ cur_x # NotBuilt
    /\ ~compared
    /\ compared' = TRUE
    /\ r_eq' = zip_eq(cur_x, cur_y)
    /\ r_ne' = zip_ne(cur_x, cur_y)
    /\ r_lt' = zip_lt(cur_x, cur_y)
    /\ r_diff' = zip_minus(cur_x, cur_y)
    /\ UNCHANGED <<nonZipVars, cursorVars, travVars, writeVars, proxyVars>>

NextZip ==
    \/ LoopTest \/ LoopDeref \/ LoopBodyRead \/ LoopBodyAssign \/ LoopInc
    \/ MeasureView \/ Obtain
    \/ PreInc \/ PreDec \/ PlusAssign \/ MinusAssign \/ Compare

SpecZip == InitZip /\ [][NextZip]_vars

\* -------------------------------------------------- strided specification
\* strided(content, stride) over a container of every length
InitStrided ==
    /\ \E len \in 0..MaxSeqLen : s_seq = Container(1, len)
    /\ s_stride \in 1..MaxStride
    /\ s_first = [c |-> 1, p |-> 0]
    /\ s_last = [c |-> 1, p |-> Len(s_seq)]
    /\ s_it = strided_begin(s_first, s_stride)
    /\ s_pc = "test"
    /\ s_out = <<>>
    /\ s_touched = {}
    /\ s_size = 0
    /\ ParkZip /\ ParkRange /\ ParkSaxpy /\ ParkViews /\ ParkTuple
    /\ ParkCursor /\ ParkPostfix /\ ParkWatch /\ ParkRunner

\* for (it = begin(); it != end(); ++it) { ... *it ... }
StridedTest ==
    /\ s_pc = "test"
    /\ s_pc' = IF strided_ne(s_it, strided_end(s_last, s_stride)) THEN "deref" ELSE "done"
    /\ UNCHANGED <<nonStridedVars, s_seq, s_first, s_last, s_stride, s_it, s_out, s_touched, s_size>>

StridedDeref ==
    /\ s_pc = "deref"
    /\ LET r == strided_deref(s_it) IN
          /\ s_touched' = s_touched \cup {r.p}
          /\ s_out' = Append(s_out,
                 IF Dereferenceable(<<s_seq>>, r) THEN Load(<<s_seq>>, r) ELSE "UB")
    /\ s_pc' = "inc"
    /\ UNCHANGED <<nonStridedVars, s_seq, s_first, s_last, s_stride, s_it, s_size>>

StridedInc ==
    /\ s_pc = "inc"
    /\ s_it' = strided_pre_inc(s_it)
    /\ s_pc' = "test"
    /\ UNCHANGED <<nonStridedVars, s_seq, s_first, s_last, s_stride, s_out, s_touched, s_size>>

\* after the traversal the caller asks the view's size()
StridedSize ==
    /\ s_pc = "done"
    /\ s_size' = strided_size(s_first, s_last, s_stride)
    /\ s_pc' = "sized"
    /\ UNCHANGED <<nonStridedVars, s_seq, s_first, s_last, s_stride, s_it, s_out, s_touched>>

NextStrided == StridedTest \/ StridedDeref \/ StridedInc \/ StridedSize

SpecStrided == InitStrided /\ [][NextStrided]_vars

\* the loop is run by one thread, which keeps running until the loop is over
SpecStridedFair == SpecStrided /\ WF_vars(NextStrided)

\* ---------------------------------------------------- range specification
\* range(first, last, step)
InitRange ==
    /\ g_first \in -MaxVal..MaxVal
    /\ g_last \in -MaxVal..MaxVal
    /\ g_step \in (-MaxStep..MaxStep) \ {0}
    /\ g_it = range_begin(g_first, g_step)
    /\ g_pc = "test"
    /\ g_out = <<>>
    /\ g_cmp = NotCompared
    /\ ParkZip /\ ParkStrided /\ ParkSaxpy /\ ParkViews /\ ParkTuple
    /\ ParkCursor /\ ParkPostfix /\ ParkWatch /\ ParkRunner

\* for (it = begin(); it != end(); ++it) { ... *it ... }
RangeTest ==
    /\ g_pc = "test"
    /\ g_pc' = IF range_ne(g_it, range_end(g_last, g_step)) THEN "deref" ELSE "done"
    /\ UNCHANGED <<nonRangeVars, g_first, g_last, g_step, g_it, g_out, g_cmp>>

RangeDeref ==
    /\ g_pc = "deref"
    /\ g_out' = Append(g_out, range_deref(g_it))
    /\ g_pc' = "inc"
    /\ UNCHANGED <<nonRangeVars, g_first, g_last, g_step, g_it, g_cmp>>

RangeInc ==
    /\ g_pc = "inc"
    /\ g_it' = range_pre_inc(g_it)
    /\ g_pc' = "test"
    /\ UNCHANGED <<nonRangeVars, g_first, g_last, g_step, g_out, g_cmp>>

\* x == y and x != y on two cursors of the view: the traversing one, begin()
\* or end()
RangeCompare ==
    /\ g_pc # "idle"
    /\ \E x \in {g_it, range_begin(g_first, g_step), range_end(g_last, g_step)} :
       \E y \in {g_it, range_begin(g_first, g_step), range_end(g_last, g_step)} :
          g_cmp' = [valid |-> TRUE, x |-> x.value_, y |-> y.value_,
                    eq |-> range_eq(x, y), ne |-> range_ne(x, y),
                    diff |-> range_minus(x, y)]
    /\ UNCHANGED <<nonRangeVars, g_first, g_last, g_step, g_it, g_pc, g_out>>

NextRange == RangeTest \/ RangeDeref \/ RangeInc \/ RangeCompare

SpecRange == InitRange /\ [][NextRange]_vars

\* ------------------------------------------------------------ zip claims
Lens == [c \in 1..Len(seqs) |-> Len(seqs[c])]

\* C1: traversing zip(A, B, ...) from begin() with ++ while the cursor != end()
\* yields exactly min(lengths) tuples, the i-th being (A[i], B[i], ...), and
\* never dereferences an element at index >= min(lengths).
ZipShortestWins ==
    /\ Len(out) <= MinLen
    /\ tpc = "done" => Len(out) = MinLen
    /\ \A k \in 1..Len(out) : out[k] = [c \in 1..Len(seqs) |-> Elem(c, k - 1)]
    /\ \A r \in touched : r.p >= 0 /\ r.p < MinLen

ZipShortestWinsWitness ==
    /\ tpc = "done"
    /\ Len(seqs) = 2 /\ Len(seqs[1]) = MaxLen /\ Len(seqs[2]) = MaxLen - 2
    /\ Len(out) = MaxLen - 2

\* C2: x == y iff at least one pair of corresponding component iterators is
\* equal, and x != y is its negation.
ZipEqualityExistential ==
    compared =>
        /\ r_eq = (\E i \in 1..Len(cur_x) : cur_x[i].p = cur_y[i].p)
        /\ r_ne = ~r_eq

ZipEqualityExistentialWitness ==
    /\ compared /\ r_eq = TRUE
    /\ \E i \in 1..Len(cur_x) : cur_x[i].p # cur_y[i].p

\* C3: x < y iff every pair of corresponding component iterators satisfies
\* a < b.
ZipOrderingUniversal ==
    compared => r_lt = (\A i \in 1..Len(cur_x) : cur_x[i].p < cur_y[i].p)

ZipOrderingUniversalWitness ==
    /\ compared /\ r_lt = FALSE
    /\ \E i \in 1..Len(cur_x) : cur_x[i].p < cur_y[i].p

\* C4: x - y is the minimum of the per-component distances; for a view,
\* end() - begin() is the minimum of the lengths, which is the number of tuples
\* the traversal yields.
ZipDistanceMin ==
    compared =>
        /\ \E i \in 1..Len(cur_x) : r_diff = cur_x[i].p - cur_y[i].p
        /\ \A i \in 1..Len(cur_x) : r_diff <= cur_x[i].p - cur_y[i].p
        /\ (cur_x = last_ /\ cur_y = first_) =>
              /\ r_diff = MinLen
              /\ tpc = "done" => r_diff = Len(out)

ZipDistanceMinWitness ==
    /\ compared /\ tpc = "done"
    /\ cur_x = last_ /\ cur_y = first_
    /\ \E c, d \in 1..Len(seqs) : Len(seqs[c]) # Len(seqs[d])
    /\ r_diff = Len(out) /\ r_diff >= 2

\* C5: assigning through the tuple obtained by dereferencing the cursor at
\* offset i sets element i of every zipped sequence to the value assigned to
\* its component and leaves every other element of every sequence unchanged.
ZipElementwiseMutation ==
    wr # NoWrite =>
        \A c \in 1..Len(seqs) :
            /\ Len(seqs[c]) = Len(before[c])
            /\ \A j \in 1..Len(seqs[c]) :
                  seqs[c][j] = IF j = wr.at + 1 THEN wr.vals[c] ELSE before[c][j]

ZipElementwiseMutationWitness ==
    /\ wr # NoWrite /\ wr.at = 1
    /\ Len(seqs) = 2 /\ Len(seqs[1]) = 3 /\ Len(seqs[2]) = 2
    /\ seqs[1][2] # seqs[2][2]
    /\ tpc = "done"

\* C6: after any sequence of ++, --, += n, -= n every component iterator of a
\* zip cursor has the same signed offset from where it started.
ZipLockStep ==
    /\ cur_x # NotBuilt =>
          \A i \in 1..Len(cur_x) : cur_x[i].p - x0[i].p = offset
    /\ \A i, j \in 1..Len(it) : it[i].p - first_[i].p = it[j].p - first_[j].p

ZipLockStepWitness ==
    /\ cur_x # NotBuilt /\ Len(cur_x) >= 2
    /\ offset = -2
    /\ \E c, d \in 1..Len(seqs) : Len(seqs[c]) # Len(seqs[d])

\* -------------------------------------------------------- strided claims
\* C8: for every stride > 0 and length L, strided(seq, stride).size() is
\* L / stride (truncating), and the traversal from begin() with ++ while the
\* cursor != end() yields exactly that many elements, the i-th seq[i*stride].
StridedSizeLaw ==
    /\ Len(s_out) <= Len(s_seq) \div s_stride
    /\ s_pc \in {"done", "sized"} => Len(s_out) = Len(s_seq) \div s_stride
    /\ s_pc = "sized" => s_size = Len(s_seq) \div s_stride
    /\ \A i \in 1..Len(s_out) :
          /\ (i - 1) * s_stride + 1 \in 1..Len(s_seq)
          /\ s_out[i] = s_seq[(i - 1) * s_stride + 1]

StridedSizeLawWitness ==
    /\ s_pc = "sized"
    /\ Len(s_seq) = 7 /\ s_stride = 3
    /\ s_size = 2 /\ Len(s_out) = 2

\* ---------------------------------------------------------- range claims
\* C10: for first < last and step > 0 the traversal of range(first, last, step)
\* yields exactly ceil((last - first) / step) values, the i-th first + i*step,
\* every one of them < last.
RangePositiveStep ==
    (g_pc # "idle" /\ g_first < g_last /\ g_step > 0) =>
        LET count == (g_last - g_first + g_step - 1) \div g_step IN
        /\ Len(g_out) <= count
        /\ g_pc = "done" => Len(g_out) = count
        /\ \A i \in 1..Len(g_out) :
              /\ g_out[i] = g_first + (i - 1) * g_step
              /\ g_out[i] < g_last

RangePositiveStepWitness ==
    /\ g_pc = "done"
    /\ g_first = -1 /\ g_last = 4 /\ g_step = 2
    /\ Len(g_out) = 3 /\ g_out[3] = 3

\* ------------------------------------------------ the standard algorithms
Policies == {"seq", "unseq", "par", "par_unseq"}

\* std::execution::seq runs the functor invocations one after another in
\* index order; every other policy lets them interleave
InOrder(pol) == pol = "seq"

\* how the algorithm reaches element i of a random-access range: *(first + i)
\* or first[i]; the sequential loop walks with ++ and *, an unsequenced or
\* parallel one may use either form
AccessForms(pol) == IF pol = "seq" THEN {"deref"} ELSE {"deref", "subscript"}

\* std::equal(first1, last1, first2)
std_equal(s1, s2) == \A i \in 1..Len(s1) : s1[i] = s2[i]

NoStore == [ref |-> [c |-> 0, p |-> 0, v |-> 0], val |-> 0]

\* the invocation of index i may start
MayStart(i) ==
    /\ task[i] = "todo"
    /\ InOrder(policy) => \A j \in 1..(i - 1) : task[j] = "done"

\* ------------------------------------------------------------ SAXPY (zip)
XVals == {1, 2}
YVals == {0, 3}

\* SAXPY::SAXPY: answer_ = y, then answer_[i] += a_ * x_[i] for i < x_.size()
SAXPY(a, x, y) ==
    [a_ |-> a, x_ |-> x, y_ |-> y,
     answer_ |-> [i \in 1..Len(y) |-> IF i <= Len(x) THEN y[i] + a * x[i] ELSE y[i]]]

\* the number of iterations of for (; first != last; ++first)
RECURSIVE zip_loop_count(_, _)
zip_loop_count(first, last) ==
    IF zip_ne(first, last) THEN 1 + zip_loop_count(zip_pre_inc(first), last) ELSE 0

\* the number of functor invocations std::for_each makes on [first, last)
zip_for_each_count(pol, first, last) ==
    IF pol = "seq" THEN zip_loop_count(first, last) ELSE zip_minus(last, first)

\* what the functor receives for element i: *(first + i) or first[i]
zip_element(form, first, i, mem) ==
    IF form = "deref" THEN zip_deref(zip_plus(first, i)) ELSE zip_subscript(first, i, mem)

InitZipSaxpy ==
    /\ \E n \in 0..MaxN : \E x \in [1..n -> XVals] : \E y \in [1..n -> YVals] :
          LET op == SAXPY(A, x, y)
          IN /\ a_ = op.a_ /\ x_ = op.x_ /\ y_ = op.y_ /\ answer_ = op.answer_
             /\ x_in = x
    /\ temp_ = <<>>
    /\ incx_ = 1 /\ incy_ = 1
    /\ policy \in Policies
    /\ fpc = "reset"
    /\ task = <<>> /\ reg = <<>> /\ correct = FALSE
    /\ ParkZip /\ ParkStrided /\ ParkRange /\ ParkViews /\ ParkTuple
    /\ ParkCursor /\ ParkPostfix /\ ParkWatch /\ ParkRunner

\* SAXPY::reset
ZipSaxpyReset ==
    /\ fpc = "reset"
    /\ temp_' = y_
    /\ fpc' = "call"
    /\ UNCHANGED <<nonSaxpyVars, a_, x_, y_, answer_, incx_, incy_, x_in, policy, task, reg, correct>>

\* SAXPY::operator(): zit = zip(x_, temp_); std::for_each(policy, begin, end, f)
ZipSaxpyCall ==
    /\ fpc = "call"
    /\ LET zit == zip(<<x_, temp_>>)
           cnt == zip_for_each_count(policy, zit.first_, zit.last_)
       IN /\ task' = [i \in 1..cnt |-> "todo"]
          /\ reg' = [i \in 1..cnt |-> NoStore]
    /\ fpc' = "run"
    /\ UNCHANGED <<nonSaxpyVars, a_, x_, y_, temp_, answer_, incx_, incy_, x_in, policy, correct>>

\* one invocation of the functor, up to the assignment:
\* get<1>(vp) += a * get<0>(vp) reads both components of vp
ZipSaxpyInvoke ==
    /\ fpc = "run"
    /\ \E i \in 1..Len(task) : \E form \in AccessForms(policy) :
          /\ MayStart(i)
          /\ LET mem == <<x_, temp_>>
                 zit == zip(mem)
                 vp  == zip_element(form, zit.first_, i - 1, mem)
             IN /\ \A k \in 1..Len(vp) : Dereferenceable(mem, vp[k])
                /\ reg' = [reg EXCEPT ![i] =
                              [ref |-> vp[2], val |-> Load(mem, vp[2]) + a_ * Load(mem, vp[1])]]
          /\ task' = [task EXCEPT ![i] = "loaded"]
    /\ UNCHANGED <<nonSaxpyVars, a_, x_, y_, temp_, answer_, incx_, incy_, x_in, policy, fpc, correct>>

\* the assignment to get<1>(vp)
ZipSaxpyAssign ==
    /\ fpc = "run"
    /\ \E i \in 1..Len(task) :
          /\ task[i] = "loaded"
          /\ LET mem == Store(<<x_, temp_>>, reg[i].ref, reg[i].val)
             IN x_' = mem[1] /\ temp_' = mem[2]
          /\ task' = [task EXCEPT ![i] = "done"]
    /\ UNCHANGED <<nonSaxpyVars, a_, y_, answer_, incx_, incy_, x_in, policy, fpc, reg, correct>>

\* SAXPY::check, once std::for_each has returned
ZipSaxpyCheck ==
    /\ fpc = "run"
    /\ \A i \in 1..Len(task) : task[i] = "done"
    /\ correct' = std_equal(answer_, temp_)
    /\ fpc' = "done"
    /\ UNCHANGED <<nonSaxpyVars, a_, x_, y_, temp_, answer_, incx_, incy_, x_in, policy, task, reg>>

NextZipSaxpy ==
    \/ ZipSaxpyReset
    \/ ZipSaxpyCall
    \/ ZipSaxpyInvoke
    \/ ZipSaxpyAssign
    \/ ZipSaxpyCheck

SpecZipSaxpy == InitZipSaxpy /\ [][NextZipSaxpy]_vars

\* C7: after reset() and the zipped for_each under any of the four policies
\* temp[i] = y[i] + a*x[i] for every i, x is unchanged and check() returns
\* true.
ZipSaxpyPolicyIndependent ==
    fpc = "done" =>
        /\ Len(temp_) = Len(y_)
        /\ \A i \in 1..Len(y_) : temp_[i] = y_[i] + a_ * x_[i]
        /\ x_ = x_in
        /\ correct

\* -------------------------------------------------- STRIDED_SAXPY (strided)
XBase == 1
YBase == 100

\* the vectors handed to the constructor: x of length n*incx, y of length n*incy
XVector(len) == [j \in 1..len |-> XBase * j]
YVector(len) == [j \in 1..len |-> YBase * j]

\* STRIDED_SAXPY::STRIDED_SAXPY: answer_ = y, then
\* answer_[i*incy_] += a_ * x_[i*incx_] for i < min(x.size()/incx, y.size()/incy)
STRIDED_SAXPY(a, x, incx, y, incy) ==
    LET x_length == TruncDiv(Len(x), incx)
        y_length == TruncDiv(Len(y), incy)
        n == min(<<x_length, y_length>>)
    IN [a_ |-> a, x_ |-> x, incx_ |-> incx, y_ |-> y, incy_ |-> incy,
        answer_ |-> [j \in 1..Len(y) |->
                        IF (j - 1) % incy = 0 /\ (j - 1) \div incy < n
                        THEN y[j] + a * x[((j - 1) \div incy) * incx + 1]
                        ELSE y[j]]]

\* strided(content, stride): the view over the whole container
strided(c, content, stride) ==
    [first_ |-> strided_begin([c |-> c, p |-> 0], stride),
     last_  |-> strided_end([c |-> c, p |-> Len(content)], stride)]

\* the number of iterations of for (; first != last; ++first)
RECURSIVE strided_loop_count(_, _)
strided_loop_count(first, last) ==
    IF strided_ne(first, last) THEN 1 + strided_loop_count(strided_pre_inc(first), last) ELSE 0

\* the number of elements std::transform processes on [first, last)
strided_transform_count(pol, first, last) ==
    IF pol = "seq" THEN strided_loop_count(first, last) ELSE strided_minus(last, first)

\* element i of a strided range: *(first + i) or first[i]
strided_element(form, first, i) ==
    IF form = "deref" THEN strided_deref(strided_plus(first, i)) ELSE strided_subscript(first, i)

InitStridedSaxpy ==
    /\ \E n \in 0..MaxN : \E incx \in 1..MaxStride : \E incy \in 1..MaxStride :
          LET op == STRIDED_SAXPY(A, XVector(n * incx), incx, YVector(n * incy), incy)
          IN /\ a_ = op.a_ /\ x_ = op.x_ /\ y_ = op.y_ /\ answer_ = op.answer_
             /\ incx_ = op.incx_ /\ incy_ = op.incy_
             /\ x_in = op.x_
    /\ temp_ = <<>>
    /\ policy \in Policies
    /\ fpc = "reset"
    /\ task = <<>> /\ reg = <<>> /\ correct = FALSE
    /\ ParkZip /\ ParkStrided /\ ParkRange /\ ParkViews /\ ParkTuple
    /\ ParkCursor /\ ParkPostfix /\ ParkWatch /\ ParkRunner

\* STRIDED_SAXPY::reset
StridedSaxpyReset ==
    /\ fpc = "reset"
    /\ temp_' = y_
    /\ fpc' = "call"
    /\ UNCHANGED <<nonSaxpyVars, a_, x_, y_, answer_, incx_, incy_, x_in, policy, task, reg, correct>>

\* STRIDED_SAXPY::operator(): x_iter = strided(x_, incx_), y_iter =
\* strided(temp_, incy_); std::transform(policy, x begin, x end, y begin, y begin, f)
StridedSaxpyCall ==
    /\ fpc = "call"
    /\ LET x_iter == strided(1, x_, incx_)
           cnt == strided_transform_count(policy, x_iter.first_, x_iter.last_)
       IN /\ task' = [i \in 1..cnt |-> "todo"]
          /\ reg' = [i \in 1..cnt |-> NoStore]
    /\ fpc' = "run"
    /\ UNCHANGED <<nonSaxpyVars, a_, x_, y_, temp_, answer_, incx_, incy_, x_in, policy, correct>>

\* one invocation of the functor: yval + (a * xval) on copies of the two inputs
StridedSaxpyApply ==
    /\ fpc = "run"
    /\ \E i \in 1..Len(task) : \E form \in AccessForms(policy) :
          /\ MayStart(i)
          /\ LET mem == <<x_, temp_>>
                 x_iter == strided(1, x_, incx_)
                 y_iter == strided(2, temp_, incy_)
                 xref == strided_element(form, x_iter.first_, i - 1)
                 yref == strided_element(form, y_iter.first_, i - 1)
             IN /\ Dereferenceable(mem, xref) /\ Dereferenceable(mem, yref)
                /\ reg' = [reg EXCEPT ![i] =
                              [ref |-> yref, val |-> Load(mem, yref) + a_ * Load(mem, xref)]]
          /\ task' = [task EXCEPT ![i] = "loaded"]
    /\ UNCHANGED <<nonSaxpyVars, a_, x_, y_, temp_, answer_, incx_, incy_, x_in, policy, fpc, correct>>

\* the assignment of the functor's result through the output cursor
StridedSaxpyWrite ==
    /\ fpc = "run"
    /\ \E i \in 1..Len(task) :
          /\ task[i] = "loaded"
          /\ LET mem == Store(<<x_, temp_>>, reg[i].ref, reg[i].val)
             IN x_' = mem[1] /\ temp_' = mem[2]
          /\ task' = [task EXCEPT ![i] = "done"]
    /\ UNCHANGED <<nonSaxpyVars, a_, y_, answer_, incx_, incy_, x_in, policy, fpc, reg, correct>>

\* STRIDED_SAXPY::check, once std::transform has returned
StridedSaxpyCheck ==
    /\ fpc = "run"
    /\ \A i \in 1..Len(task) : task[i] = "done"
    /\ correct' = std_equal(answer_, temp_)
    /\ fpc' = "done"
    /\ UNCHANGED <<nonSaxpyVars, a_, x_, y_, temp_, answer_, incx_, incy_, x_in, policy, task, reg>>

NextStridedSaxpy ==
    \/ StridedSaxpyReset
    \/ StridedSaxpyCall
    \/ StridedSaxpyApply
    \/ StridedSaxpyWrite
    \/ StridedSaxpyCheck

SpecStridedSaxpy == InitStridedSaxpy /\ [][NextStridedSaxpy]_vars

\* C9: the strided SAXPY writes in place and at strided positions only: with
\* x of length n*incx and y of length n*incy, under every policy a finished
\* write of logical index i has made temp[i*incy] = y[i*incy] + a*x[i*incx],
\* every other position of temp still holds y's value and x is untouched; at
\* the end this holds for every i < n.
StridedSaxpyInPlace ==
    fpc \in {"run", "done"} =>
        LET n == Len(x_in) \div incx_ IN
        /\ Len(task) = n
        /\ x_ = x_in
        /\ Len(temp_) = Len(y_)
        /\ \A j \in 1..Len(y_) :
              IF (j - 1) % incy_ = 0 /\ task[(j - 1) \div incy_ + 1] = "done"
              THEN temp_[j] = y_[j] + a_ * x_in[((j - 1) \div incy_) * incx_ + 1]
              ELSE temp_[j] = y_[j]
        /\ fpc = "done" => \A i \in 1..n : task[i] = "done"

StridedSaxpyInPlaceWitness ==
    /\ fpc = "done"
    /\ policy = "par_unseq"
    /\ incx_ = 2 /\ incy_ = 3
    /\ Len(x_in) = 6 /\ Len(y_) = 9
    /\ temp_[4] = y_[4] + a_ * x_in[3]
    /\ temp_[7] = y_[7] + a_ * x_in[5]
    /\ temp_[5] = y_[5]
    /\ correct

\* C11: for first > last and step < 0 the traversal of range(first, last, step)
\* yields exactly ceil((first - last) / |step|) values, the i-th first + i*step,
\* every one of them > last.
RangeNegativeStep ==
    (g_pc # "idle" /\ g_first > g_last /\ g_step < 0) =>
        LET count == (g_first - g_last + (-g_step) - 1) \div (-g_step) IN
        /\ Len(g_out) <= count
        /\ g_pc = "done" => Len(g_out) = count
        /\ \A i \in 1..Len(g_out) :
              /\ g_out[i] = g_first + (i - 1) * g_step
              /\ g_out[i] > g_last

\* C12: a == b iff (step > 0 and b.value <= a.value) or (step < 0 and
\* a.value <= b.value), and a != b is its negation.
RangeEqualityCrossing ==
    g_cmp.valid =>
        /\ g_cmp.eq <=> \/ (g_step > 0 /\ g_cmp.y <= g_cmp.x)
                        \/ (g_step < 0 /\ g_cmp.x <= g_cmp.y)
        /\ g_cmp.ne <=> ~g_cmp.eq

\* ------------------------------------------- views and independent cursors
\* the proxy objects: range_proxy, strided_proxy and zip_proxy hold their
\* fields by value
range_proxy(first, last, step) == [first_ |-> first, last_ |-> last, step_ |-> step]

strided_proxy(first, last, stride) == [first_ |-> first, last_ |-> last, stride_ |-> stride]

zip_proxy(first, last) == [first_ |-> first, last_ |-> last]

\* begin() and end() build a new cursor from the proxy's fields
view_begin(kind, view) ==
    CASE kind = "range"   -> range_begin(view.first_, view.step_)
      [] kind = "strided" -> strided_begin(view.first_, view.stride_)
      [] kind = "zip"     -> view.first_

view_end(kind, view) ==
    CASE kind = "range"   -> range_end(view.last_, view.step_)
      [] kind = "strided" -> strided_end(view.last_, view.stride_)
      [] kind = "zip"     -> view.last_

cursor_ne(kind, x, y) ==
    CASE kind = "range"   -> range_ne(x, y)
      [] kind = "strided" -> strided_ne(x, y)
      [] kind = "zip"     -> zip_ne(x, y)

cursor_pre_inc(kind, x) ==
    CASE kind = "range"   -> range_pre_inc(x)
      [] kind = "strided" -> strided_pre_inc(x)
      [] kind = "zip"     -> zip_pre_inc(x)

\* the value read through operator*
cursor_read(kind, x, mem) ==
    CASE kind = "range"   -> range_deref(x)
      [] kind = "strided" -> Load(mem, strided_deref(x))
      [] kind = "zip"     -> [c \in 1..Len(x) |-> Load(mem, zip_deref(x)[c])]

\* operator=: the argument is taken by value and swapped into *this
cursor_assign(kind, x, other) ==
    CASE kind = "range"   -> [x EXCEPT !.value_ = other.value_]
      [] kind = "strided" -> [x EXCEPT !.iterator_ = other.iterator_]
      [] kind = "zip"     -> other

\* (mutation) the cursors share one position
update_all(cursors, k, x) == [j \in 1..Len(cursors) |-> x]

\* a member operator changes the cursor it is called on
update(cursors, k, x) == [cursors EXCEPT ![k] = x]

InitViews ==
    /\ \/ /\ v_kind = "range"
          /\ \E last \in -MaxViewLen..MaxViewLen :
             \E step \in (-MaxViewStep..MaxViewStep) \ {0} :
                v_view = range_proxy(0, last, step)
          /\ v_mem = <<>>
       \/ /\ v_kind = "strided"
          /\ \E len \in 0..MaxViewLen : \E stride \in 1..MaxViewStep :
                /\ v_mem = <<Container(1, len)>>
                /\ v_view = strided_proxy([c |-> 1, p |-> 0], [c |-> 1, p |-> len], stride)
       \/ /\ v_kind = "zip"
          /\ \E l1 \in 0..MaxViewLen : \E l2 \in 0..MaxViewLen :
                /\ v_mem = <<Container(1, l1), Container(2, l2)>>
                /\ v_view = zip_proxy(zip(v_mem).first_, zip(v_mem).last_)
    /\ v_view0 = v_view
    /\ v_cur = <<view_begin(v_kind, v_view), view_begin(v_kind, v_view)>>
    /\ v_pc = <<"test", "test">>
    /\ v_out = <<<<>>, <<>>>>
    /\ v_assigned = <<FALSE, FALSE>>
    /\ ParkZip /\ ParkStrided /\ ParkRange /\ ParkSaxpy /\ ParkTuple
    /\ ParkCursor /\ ParkPostfix /\ ParkWatch /\ ParkRunner

\* cursor k: it != view.end()
ViewTest ==
    /\ \E k \in 1..2 :
          /\ v_pc[k] = "test"
          /\ v_pc' = [v_pc EXCEPT ![k] =
                IF cursor_ne(v_kind, v_cur[k], view_end(v_kind, v_view)) THEN "deref" ELSE "done"]
    /\ UNCHANGED <<nonViewVars, v_kind, v_view, v_view0, v_mem, v_cur, v_out, v_assigned>>

\* cursor k: *it
ViewDeref ==
    /\ \E k \in 1..2 :
          /\ v_pc[k] = "deref"
          /\ v_out' = [v_out EXCEPT ![k] = Append(@, cursor_read(v_kind, v_cur[k], v_mem))]
          /\ v_pc' = [v_pc EXCEPT ![k] = "inc"]
    /\ UNCHANGED <<nonViewVars, v_kind, v_view, v_view0, v_mem, v_cur, v_assigned>>

\* cursor k: ++it
ViewInc ==
    /\ \E k \in 1..2 :
          /\ v_pc[k] = "inc"
          /\ v_cur' = update(v_cur, k, cursor_pre_inc(v_kind, v_cur[k]))
          /\ v_pc' = [v_pc EXCEPT ![k] = "test"]
    /\ UNCHANGED <<nonViewVars, v_kind, v_view, v_view0, v_mem, v_out, v_assigned>>

\* cursor k: it = view.begin(), starting its traversal again
ViewAssign ==
    /\ \E k \in 1..2 :
          /\ ~v_assigned[k]
          /\ v_pc[k] \in {"test", "done"}
          /\ v_cur' = update(v_cur, k, cursor_assign(v_kind, v_cur[k], view_begin(v_kind, v_view)))
          /\ v_pc' = [v_pc EXCEPT ![k] = "test"]
          /\ v_out' = [v_out EXCEPT ![k] = <<>>]
          /\ v_assigned' = [v_assigned EXCEPT ![k] = TRUE]
    /\ UNCHANGED <<nonViewVars, v_kind, v_view, v_view0, v_mem>>

NextViews == ViewTest \/ ViewDeref \/ ViewInc \/ ViewAssign

SpecViews == InitViews /\ [][NextViews]_vars

\* one traversal of the view on its own, from cursor x
RECURSIVE single_traversal(_, _, _, _)
single_traversal(kind, x, last, mem) ==
    IF cursor_ne(kind, x, last)
    THEN <<cursor_read(kind, x, mem)>> \o single_traversal(kind, cursor_pre_inc(kind, x), last, mem)
    ELSE <<>>

\* C13: the view never changes, begin() and end() keep returning cursors at
\* the original positions, and each of two arbitrarily interleaved traversals
\* yields a prefix of, and once finished exactly, the sequence a traversal on
\* its own yields.
ViewsImmutableCursorsIndependent ==
    v_kind # "none" =>
        LET whole == single_traversal(v_kind, view_begin(v_kind, v_view0),
                                      view_end(v_kind, v_view0), v_mem)
        IN /\ v_view = v_view0
           /\ view_begin(v_kind, v_view) = view_begin(v_kind, v_view0)
           /\ view_end(v_kind, v_view) = view_end(v_kind, v_view0)
           /\ \A k \in 1..2 :
                 /\ Len(v_out[k]) <= Len(whole)
                 /\ v_out[k] = SubSeq(whole, 1, Len(v_out[k]))
                 /\ v_pc[k] = "done" => v_out[k] = whole

ViewsImmutableCursorsIndependentWitness ==
    /\ v_kind = "zip"
    /\ Len(v_mem[1]) = 3 /\ Len(v_mem[2]) = 2
    /\ v_pc = <<"done", "inc">>
    /\ Len(v_out[1]) = 2 /\ Len(v_out[2]) = 1
    /\ v_assigned = <<FALSE, TRUE>>

\* --------------------------------------------------- the tuple algorithms
\* the elements of the tuples handed to the algorithms
ElemVals == {-1, 0, 2}

Tuples == UNION {[1..n -> ElemVals] : n \in 0..MaxTuple}

\* a stateful unary functor called on one element (taken by reference):
\* "record" keeps the arguments it has seen, "accumulate" keeps their running
\* sum and stores it into the element
invoke1(p, x) ==
    CASE p.fn = "record"     -> [p |-> [p EXCEPT !.state = Append(@, x)], x |-> x]
      [] p.fn = "accumulate" -> [p |-> [p EXCEPT !.state = @ + x], x |-> p.state + x]
      [] p.fn = "find_if"    ->
            [p |-> [p EXCEPT !.index = IF ~p.found /\ call1(p.p, x) THEN p.current_index ELSE @,
                             !.found = IF ~p.found /\ call1(p.p, x) THEN TRUE ELSE @,
                             !.current_index = @ + 1],
             x |-> x]
      [] p.fn = "perform"    ->
            [p |-> [p EXCEPT !.seen = IF p.index = p.current_index THEN Append(@, x) ELSE @,
                             !.current_index = @ + 1],
             x |-> IF p.index = p.current_index THEN x + p.action.add ELSE x]

\* a stateful binary functor called on a pair of elements (by reference):
\* "record" keeps the pairs it has seen, "exchange" swaps the two elements
\* and counts its calls
invoke2(p, a, b) ==
    CASE p.fn = "record"   -> [p |-> [p EXCEPT !.state = Append(@, <<a, b>>)], a |-> a, b |-> b]
      [] p.fn = "exchange" -> [p |-> [p EXCEPT !.state = @ + 1], a |-> b, b |-> a]

UnaryFunctors == {[fn |-> "record", state |-> <<>>], [fn |-> "accumulate", state |-> 0]}
BinaryFunctors == {[fn |-> "record", state |-> <<>>], [fn |-> "exchange", state |-> 0]}

\* (mutation) the fold stops before the last element
RECURSIVE for_each_fold_short(_, _, _)
for_each_fold_short(t, p, i) ==
    IF i >= Len(t) THEN [t |-> t, p |-> p]
    ELSE LET r == invoke1(p, t[i])
         IN for_each_fold_short([t EXCEPT ![i] = r.x], r.p, i + 1)

\* for_each(t, p): std::apply of the comma fold (..., p(xs)), from element i
\* on; yields the tuple as the calls left it and the functor returned
RECURSIVE for_each_fold(_, _, _)
for_each_fold(t, p, i) ==
    IF i > Len(t) THEN [t |-> t, p |-> p]
    ELSE LET r == invoke1(p, t[i])
         IN for_each_fold([t EXCEPT ![i] = r.x], r.p, i + 1)

\* (mutation) the index sequence runs over the first tuple's size
for_each2_size_first(size1, size2) == size1

\* constexpr auto size = std::min(t1_size, t2_size)
for_each2_size(size1, size2) == IF size2 < size1 THEN size2 ELSE size1

\* detail::for_each_impl(t1, t2, f, index_sequence<I...>): the calls
\* f(get<I>(t1), get<I>(t2)) in the order of the initializer list
RECURSIVE for_each_impl2(_, _, _, _, _)
for_each_impl2(t1, t2, f, i, size) ==
    IF i > size THEN [t1 |-> t1, t2 |-> t2, p |-> f]
    ELSE IF i > Len(t1) \/ i > Len(t2) THEN [t1 |-> t1, t2 |-> t2, p |-> [fn |-> "ill-formed"]]
    ELSE LET r == invoke2(f, t1[i], t2[i])
         IN for_each_impl2([t1 EXCEPT ![i] = r.a], [t2 EXCEPT ![i] = r.b], r.p, i + 1, size)

\* for_each(t1, t2, f)
for_each2(t1, t2, f) == for_each_impl2(t1, t2, f, 1, for_each2_size(Len(t1), Len(t2)))

InitTuple ==
    /\ u_op = "none"
    /\ u_t1 \in Tuples
    /\ u_t2 = <<>>
    /\ u_types = <<>>
    /\ u_p = [fn |-> "none"]
    /\ u_res = NoCall
    /\ ParkZip /\ ParkStrided /\ ParkRange /\ ParkSaxpy /\ ParkViews
    /\ ParkCursor /\ ParkPostfix /\ ParkWatch /\ ParkRunner

\* for_each(t, p)
ForEach ==
    /\ u_op = "none"
    /\ \E p \in UnaryFunctors :
          /\ u_p' = p
          /\ LET r == for_each_fold(u_t1, p, 1)
             IN u_res' = [t1 |-> r.t, t2 |-> <<>>, p |-> r.p, val |-> 0]
    /\ u_op' = "for_each"
    /\ UNCHANGED <<nonTupleVars, u_t1, u_t2, u_types>>

\* for_each(t1, t2, f)
ForEach2 ==
    /\ u_op = "none"
    /\ \E t2 \in Tuples : \E f \in BinaryFunctors :
          /\ u_t2' = t2
          /\ u_p' = f
          /\ LET r == for_each2(u_t1, t2, f)
             IN u_res' = [t1 |-> r.t1, t2 |-> r.t2, p |-> r.p, val |-> 0]
    /\ u_op' = "for_each2"
    /\ UNCHANGED <<nonTupleVars, u_t1, u_types>>

\* the value a call that does not compile leaves
IllFormed(t1, t2) == [t1 |-> t1, t2 |-> t2, p |-> [fn |-> "ill-formed"], val |-> <<>>]

BinaryFunctions == {[fn |-> "plus"], [fn |-> "less"]}

\* transform(t1, t2, function)
Transform2 ==
    /\ u_op = "none"
    /\ \E t2 \in Tuples : \E f \in BinaryFunctions :
          /\ u_t2' = t2
          /\ u_p' = f
          /\ u_res' = IF transform2_instantiates(u_t1, t2)
                       THEN [t1 |-> u_t1, t2 |-> t2, p |-> f, val |-> transform2(u_t1, t2, f)]
                       ELSE IllFormed(u_t1, t2)
    /\ u_op' = "transform2"
    /\ UNCHANGED <<nonTupleVars, u_t1, u_types>>

UnaryFunctions == {[fn |-> "identity"], [fn |-> "negate"]}

\* transform(inputs, function): inputs is taken by const reference
Transform ==
    /\ u_op = "none"
    /\ \E f \in UnaryFunctions :
          /\ u_p' = f
          /\ u_res' = [t1 |-> u_t1, t2 |-> <<>>, p |-> f, val |-> transform(u_t1, f)]
    /\ u_op' = "transform"
    /\ UNCHANGED <<nonTupleVars, u_t1, u_t2, u_types>>

UnaryPredicates == {[fn |-> "below", k |-> k] : k \in {-1, 0, 3}}
BinaryPredicates == {[fn |-> "less"], [fn |-> "equal"]}

none_of2(t1, t2, p) == none_of(transform2(t1, t2, p), [fn |-> "identity"])

\* all_of(t, p)
AllOf ==
    /\ u_op = "none"
    /\ \E p \in UnaryPredicates :
          /\ u_p' = p
          /\ u_res' = [t1 |-> u_t1, t2 |-> <<>>, p |-> p, val |-> all_of(u_t1, p)]
    /\ u_op' = "all_of"
    /\ UNCHANGED <<nonTupleVars, u_t1, u_t2, u_types>>

\* any_of(t, p)
AnyOf ==
    /\ u_op = "none"
    /\ \E p \in UnaryPredicates :
          /\ u_p' = p
          /\ u_res' = [t1 |-> u_t1, t2 |-> <<>>, p |-> p, val |-> any_of(u_t1, p)]
    /\ u_op' = "any_of"
    /\ UNCHANGED <<nonTupleVars, u_t1, u_t2, u_types>>

\* none_of(t, p)
NoneOf ==
    /\ u_op = "none"
    /\ \E p \in UnaryPredicates :
          /\ u_p' = p
          /\ u_res' = [t1 |-> u_t1, t2 |-> <<>>, p |-> p, val |-> none_of(u_t1, p)]
    /\ u_op' = "none_of"
    /\ UNCHANGED <<nonTupleVars, u_t1, u_t2, u_types>>

\* all_of(t1, t2, p): the transform of the two tuples, then all_of
AllOf2 ==
    /\ u_op = "none"
    /\ \E t2 \in Tuples : \E p \in BinaryPredicates :
          /\ u_t2' = t2
          /\ u_p' = p
          /\ u_res' = IF transform2_instantiates(u_t1, t2)
                       THEN [t1 |-> u_t1, t2 |-> t2, p |-> p, val |-> all_of2(u_t1, t2, p)]
                       ELSE IllFormed(u_t1, t2)
    /\ u_op' = "all_of2"
    /\ UNCHANGED <<nonTupleVars, u_t1, u_types>>

\* any_of(t1, t2, p)
AnyOf2 ==
    /\ u_op = "none"
    /\ \E t2 \in Tuples : \E p \in BinaryPredicates :
          /\ u_t2' = t2
          /\ u_p' = p
          /\ u_res' = IF transform2_instantiates(u_t1, t2)
                       THEN [t1 |-> u_t1, t2 |-> t2, p |-> p, val |-> any_of2(u_t1, t2, p)]
                       ELSE IllFormed(u_t1, t2)
    /\ u_op' = "any_of2"
    /\ UNCHANGED <<nonTupleVars, u_t1, u_types>>

\* none_of(t1, t2, p)
NoneOf2 ==
    /\ u_op = "none"
    /\ \E t2 \in Tuples : \E p \in BinaryPredicates :
          /\ u_t2' = t2
          /\ u_p' = p
          /\ u_res' = IF transform2_instantiates(u_t1, t2)
                       THEN [t1 |-> u_t1, t2 |-> t2, p |-> p, val |-> none_of2(u_t1, t2, p)]
                       ELSE IllFormed(u_t1, t2)
    /\ u_op' = "none_of2"
    /\ UNCHANGED <<nonTupleVars, u_t1, u_types>>

\* the element types of a tuple handed to min or max
ElemTypes == {"int", "unsigned"}

\* std::common_type_t<Ts...> of int and unsigned int elements
common_type(types) == IF \E i \in 1..Len(types) : types[i] = "unsigned" THEN "unsigned" ELSE "int"

\* static_cast<return_type>(xs)...: an int converted to unsigned int wraps
\* modulo 2^width
static_cast_all(return_type, t) ==
    [i \in 1..Len(t) |-> IF return_type = "unsigned" THEN t[i] % (2^UIntBits) ELSE t[i]]

\* min(t): std::min over the elements converted to their common type
Min ==
    /\ u_op = "none"
    /\ \E types \in [1..Len(u_t1) -> ElemTypes] :
          /\ \A i \in 1..Len(u_t1) : types[i] = "unsigned" => u_t1[i] >= 0
          /\ u_types' = types
          /\ u_res' = IF Len(u_t1) = 0 THEN IllFormed(u_t1, <<>>)
                       ELSE [t1 |-> u_t1, t2 |-> <<>>, p |-> [fn |-> "none"],
                             val |-> min(static_cast_all(common_type(types), u_t1))]
    /\ u_op' = "min"
    /\ UNCHANGED <<nonTupleVars, u_t1, u_t2, u_p>>

\* max(t)
Max ==
    /\ u_op = "none"
    /\ \E types \in [1..Len(u_t1) -> ElemTypes] :
          /\ \A i \in 1..Len(u_t1) : types[i] = "unsigned" => u_t1[i] >= 0
          /\ u_types' = types
          /\ u_res' = IF Len(u_t1) = 0 THEN IllFormed(u_t1, <<>>)
                       ELSE [t1 |-> u_t1, t2 |-> <<>>, p |-> [fn |-> "none"],
                             val |-> max(static_cast_all(common_type(types), u_t1))]
    /\ u_op' = "max"
    /\ UNCHANGED <<nonTupleVars, u_t1, u_t2, u_p>>

\* (mutation) the search keeps the last match
find_if_last(t, p) ==
    IF \E i \in 1..Len(t) : call1(p, t[i])
    THEN (CHOOSE i \in 1..Len(t) : call1(p, t[i]) /\ \A j \in (i + 1)..Len(t) : ~call1(p, t[j])) - 1
    ELSE Len(t)

\* find_if(t, p): for_each with a lambda that captures index, current_index
\* and found by reference
find_if(t, p) ==
    for_each_fold(t, [fn |-> "find_if", p |-> p, index |-> Len(t), current_index |-> 0,
                      found |-> FALSE], 1).p.index

\* find_if(t, p)
FindIf ==
    /\ u_op = "none"
    /\ \E p \in UnaryPredicates :
          /\ u_p' = p
          /\ u_res' = [t1 |-> u_t1, t2 |-> <<>>, p |-> p, val |-> find_if(u_t1, p)]
    /\ u_op' = "find_if"
    /\ UNCHANGED <<nonTupleVars, u_t1, u_t2, u_types>>

\* the lambda perform hands to for_each: the action (here: add to the
\* element), the index and the running current_index; seen lists the
\* arguments the action was called with
perform_lambda(index, action) ==
    [fn |-> "perform", action |-> action, index |-> index, current_index |-> 0, seen |-> <<>>]

\* (mutation) an index past the end acts on the last element
perform_clamped(t, index, action) ==
    for_each_fold(t, perform_lambda(IF index >= Len(t) THEN Len(t) - 1 ELSE index, action), 1)

\* perform(t, index, action)
perform(t, index, action) == for_each_fold(t, perform_lambda(index, action), 1)

\* perform(t, index, action)
Perform ==
    /\ u_op = "none"
    /\ \E index \in 0..(MaxTuple + 1) :
          LET r == perform(u_t1, index, [add |-> 100])
          IN /\ u_p' = perform_lambda(index, [add |-> 100])
             /\ u_res' = [t1 |-> r.t, t2 |-> <<>>, p |-> r.p, val |-> 0]
    /\ u_op' = "perform"
    /\ UNCHANGED <<nonTupleVars, u_t1, u_t2, u_types>>

NextTuple ==
    \/ Perform
    \/ Min
    \/ Max
    \/ FindIf
    \/ ForEach
    \/ ForEach2
    \/ Transform2
    \/ Transform
    \/ AllOf
    \/ AnyOf
    \/ NoneOf
    \/ AllOf2
    \/ AnyOf2
    \/ NoneOf2

SpecTuple == InitTuple /\ [][NextTuple]_vars

\* C14: for_each(t, f) calls f once on each element in index order, keeps the
\* tuple's arity and returns the functor with the state of all N calls: the
\* recording functor comes back holding t[0..N-1] in order, the accumulating
\* one holding their sum, having stored the running sums into the elements.
ForEachInOrder ==
    u_op = "for_each" =>
        /\ Len(u_res.t1) = Len(u_t1)
        /\ u_res.p.fn = u_p.fn
        /\ u_p.fn = "record" => u_res.p.state = u_t1 /\ u_res.t1 = u_t1
        /\ u_p.fn = "accumulate" =>
              /\ \A i \in 1..Len(u_t1) :
                    u_res.t1[i] = (IF i = 1 THEN 0 ELSE u_res.t1[i - 1]) + u_t1[i]
              /\ u_res.p.state = IF u_t1 = <<>> THEN 0 ELSE u_res.t1[Len(u_t1)]

ForEachInOrderWitness ==
    /\ u_op = "for_each"
    /\ u_t1 = <<2, -1, 2>>
    /\ u_p.fn = "accumulate"
    /\ u_res.t1 = <<2, 1, 3>>
    /\ u_res.p.state = 3

\* C15: for_each(t1, t2, f) calls f(t1[i], t2[i]) once for each
\* i < min(|t1|, |t2|) in index order and leaves the elements of the longer
\* tuple from index min(|t1|, |t2|) on untouched.
ForEachTwoTuples ==
    u_op = "for_each2" =>
        LET n == IF Len(u_t1) < Len(u_t2) THEN Len(u_t1) ELSE Len(u_t2) IN
        /\ Len(u_res.t1) = Len(u_t1) /\ Len(u_res.t2) = Len(u_t2)
        /\ u_res.p.fn = u_p.fn
        /\ \A i \in (n + 1)..Len(u_t1) : u_res.t1[i] = u_t1[i]
        /\ \A i \in (n + 1)..Len(u_t2) : u_res.t2[i] = u_t2[i]
        /\ u_p.fn = "record" =>
              /\ u_res.p.state = [i \in 1..n |-> <<u_t1[i], u_t2[i]>>]
              /\ u_res.t1 = u_t1 /\ u_res.t2 = u_t2
        /\ u_p.fn = "exchange" =>
              /\ u_res.p.state = n
              /\ \A i \in 1..n : u_res.t1[i] = u_t2[i] /\ u_res.t2[i] = u_t1[i]

ForEachTwoTuplesWitness ==
    /\ u_op = "for_each2"
    /\ u_t1 = <<2, -1, 0>> /\ u_t2 = <<0, 2>>
    /\ u_p.fn = "exchange"
    /\ u_res.t1 = <<0, 2, 0>> /\ u_res.t2 = <<2, -1>>
    /\ u_res.p.state = 2

\* C16: transform(t1, t2, f) returns a tuple of length min(|t1|, |t2|) whose
\* i-th element is f(t1[i], t2[i]), for tuples of equal or different lengths.
TransformTwoTuplesTruncates ==
    u_op = "transform2" =>
        LET n == IF Len(u_t1) < Len(u_t2) THEN Len(u_t1) ELSE Len(u_t2) IN
        /\ u_res.p.fn # "ill-formed"
        /\ Len(u_res.val) = n
        /\ \A i \in 1..n : u_res.val[i] = call2(u_p, u_t1[i], u_t2[i])

\* C17: transform(t, identity) is a tuple of the same length, equal to t
\* element by element, and t itself is unchanged.
TransformIdentityRoundTrip ==
    (u_op = "transform" /\ u_p.fn = "identity") =>
        /\ Len(u_res.val) = Len(u_t1)
        /\ \A i \in 1..Len(u_t1) : u_res.val[i] = u_t1[i]
        /\ u_res.t1 = u_t1

TransformIdentityRoundTripWitness ==
    /\ u_op = "transform" /\ u_p.fn = "identity"
    /\ u_t1 = <<2, -1, 0>>
    /\ u_res.val = <<2, -1, 0>>

TupleMinMax ==
    (u_op \in {"min", "max"} /\ Len(u_t1) > 0) =>
        LET converted == static_cast_all(common_type(u_types), u_t1) IN
        /\ u_res.p.fn # "ill-formed"
        /\ \E i \in 1..Len(u_t1) : u_res.val = converted[i]
        /\ u_op = "min" => \A i \in 1..Len(u_t1) : u_res.val <= converted[i]
        /\ u_op = "max" => \A i \in 1..Len(u_t1) : u_res.val >= converted[i]
        /\ u_res.t1 = u_t1

TupleMinMaxWitness ==
    /\ u_op = "min"
    /\ u_t1 = <<-1, 2, 0>>
    /\ u_types = <<"int", "int", "unsigned">>
    /\ u_res.val = 0

\* C20: find_if(t, p) returns the smallest index whose element satisfies p
\* and the size N when none does; the result is in 0..N and is < N iff some
\* element satisfies p.
FindIfFirstMatch ==
    u_op = "find_if" =>
        LET N == Len(u_t1)
            holds(i) == call1(u_p, u_t1[i + 1])
        IN /\ u_res.val \in 0..N
           /\ u_res.val < N <=> \E i \in 0..(N - 1) : holds(i)
           /\ u_res.val < N =>
                 /\ holds(u_res.val)
                 /\ \A i \in 0..(u_res.val - 1) : ~holds(i)

FindIfFirstMatchWitness ==
    /\ u_op = "find_if"
    /\ u_t1 = <<2, -1, -1>>
    /\ u_p = [fn |-> "below", k |-> 0]
    /\ u_res.val = 1

\* C21: perform(t, index, action) calls action once, on the element at
\* position index, when index < size, and not at all when index >= size; no
\* other element reaches the action.
PerformAtIndex ==
    u_op = "perform" =>
        LET N == Len(u_t1)
            index == u_p.index
        IN /\ Len(u_res.t1) = N
           /\ index < N =>
                 /\ u_res.p.seen = <<u_t1[index + 1]>>
                 /\ u_res.t1 = [u_t1 EXCEPT ![index + 1] = @ + u_p.action.add]
           /\ index >= N =>
                 /\ u_res.p.seen = <<>>
                 /\ u_res.t1 = u_t1

PerformAtIndexWitness ==
    /\ u_op = "perform"
    /\ u_t1 = <<2, -1, 0>>
    /\ u_p.index = 1
    /\ u_res.t1 = <<2, 99, 0>>
    /\ u_res.p.seen = <<-1>>

\* ------------------------------------ the operators on a pair of cursors
\* Two range_iterators, or two strided_iterators over one sequence, are
\* built from arbitrary arguments and the member and friend operators are
\* applied to them.  A call returns a value, or a failed assert aborts the
\* program, or an integer division by zero traps.
Returned(v) == [outcome |-> "value", val |-> v]
Asserted == [outcome |-> "assert", val |-> 0]
Trapped == [outcome |-> "trap", val |-> 0]

\* operator+(x, y) and operator+(y, x) of range_iterator: x += y * x.step_
range_plus(x, y) == range_plus_assign(x, y * x.step_)

cursor_new(kind, value, step) ==
    IF kind = "range" THEN range_iterator(value, step)
    ELSE strided_iterator([c |-> 1, p |-> value], step)

step_of(kind, x) == IF kind = "range" THEN x.step_ ELSE x.stride_

after(res) == IF res.outcome = "value" THEN "ready" ELSE "aborted"

InitPair ==
    /\ k_kind \in {"range", "strided"}
    /\ \E xv \in 0..MaxPos : \E yv \in 0..MaxPos :
       \E xs \in -MaxPairStep..MaxPairStep : \E ys \in -MaxPairStep..MaxPairStep :
          k_args = [xv |-> xv, xs |-> xs, yv |-> yv, ys |-> ys]
    /\ k_x = cursor_new(k_kind, 0, 1)
    /\ k_y = cursor_new(k_kind, 0, 1)
    /\ k_pc = "new"
    /\ k_op = "none"
    /\ k_n = 0
    /\ k_res = Returned(0)
    /\ k_moves = 0
    /\ ParkZip /\ ParkStrided /\ ParkRange /\ ParkSaxpy /\ ParkViews /\ ParkTuple
    /\ ParkPostfix /\ ParkWatch /\ ParkRunner

\* range_iterator(value, step) stores its arguments; strided_iterator(iterator,
\* stride) asserts stride != 0 first
PairConstruct ==
    /\ k_pc = "new"
    /\ k_op' = "construct"
    /\ IF k_kind = "strided" /\ (k_args.xs = 0 \/ k_args.ys = 0)
       THEN /\ k_res' = Asserted
            /\ k_pc' = "aborted"
            /\ UNCHANGED <<k_x, k_y>>
       ELSE /\ k_x' = cursor_new(k_kind, k_args.xv, k_args.xs)
            /\ k_y' = cursor_new(k_kind, k_args.yv, k_args.ys)
            /\ k_res' = Returned(0)
            /\ k_pc' = "ready"
    /\ UNCHANGED <<nonPairVars, k_kind, k_args, k_n, k_moves>>

\* ++x
PairPreInc ==
    /\ k_pc = "ready"
    /\ k_moves < MaxMoves
    /\ k_moves' = k_moves + 1
    /\ k_op' = "pre_inc"
    /\ k_x' = IF k_kind = "range" THEN range_pre_inc(k_x) ELSE strided_pre_inc(k_x)
    /\ k_res' = Returned(0)
    /\ UNCHANGED <<nonPairVars, k_kind, k_args, k_y, k_pc, k_n>>

\* --x
PairPreDec ==
    /\ k_pc = "ready"
    /\ k_moves < MaxMoves
    /\ k_moves' = k_moves + 1
    /\ k_op' = "pre_dec"
    /\ k_x' = IF k_kind = "range" THEN range_pre_dec(k_x) ELSE strided_pre_dec(k_x)
    /\ k_res' = Returned(0)
    /\ UNCHANGED <<nonPairVars, k_kind, k_args, k_y, k_pc, k_n>>

\* x += n
PairPlusAssign ==
    /\ k_pc = "ready"
    /\ k_moves < MaxMoves
    /\ k_moves' = k_moves + 1
    /\ k_op' = "plus_assign"
    /\ \E n \in -MaxInc..MaxInc :
          /\ k_n' = n
          /\ k_x' = IF k_kind = "range" THEN range_plus_assign(k_x, n)
                    ELSE strided_plus_assign(k_x, n)
    /\ k_res' = Returned(0)
    /\ UNCHANGED <<nonPairVars, k_kind, k_args, k_y, k_pc>>

\* x -= n
PairMinusAssign ==
    /\ k_pc = "ready"
    /\ k_moves < MaxMoves
    /\ k_moves' = k_moves + 1
    /\ k_op' = "minus_assign"
    /\ \E n \in -MaxInc..MaxInc :
          /\ k_n' = n
          /\ k_x' = IF k_kind = "range" THEN range_minus_assign(k_x, n)
                    ELSE strided_minus_assign(k_x, n)
    /\ k_res' = Returned(0)
    /\ UNCHANGED <<nonPairVars, k_kind, k_args, k_y, k_pc>>

\* x = y : asserts equal steps / strides, then swaps the argument's position in
PairAssign ==
    /\ k_pc = "ready"
    /\ k_moves < MaxMoves
    /\ k_moves' = k_moves + 1
    /\ k_op' = "assign"
    /\ IF step_of(k_kind, k_x) # step_of(k_kind, k_y)
       THEN /\ k_res' = Asserted
            /\ k_pc' = "aborted"
            /\ UNCHANGED k_x
       ELSE /\ k_res' = Returned(0)
            /\ k_x' = cursor_assign(k_kind, k_x, k_y)
            /\ UNCHANGED k_pc
    /\ UNCHANGED <<nonPairVars, k_kind, k_args, k_y, k_n>>

\* x == y : both classes assert equal steps / strides first
PairEq ==
    /\ k_pc = "ready"
    /\ k_op' = "eq"
    /\ k_res' = IF step_of(k_kind, k_x) # step_of(k_kind, k_y) THEN Asserted
                ELSE IF k_kind = "range" THEN Returned(range_eq(k_x, k_y))
                ELSE Returned(strided_eq(k_x, k_y))
    /\ k_pc' = after(k_res')
    /\ UNCHANGED <<nonPairVars, k_kind, k_args, k_x, k_y, k_n, k_moves>>

\* x != y : range_iterator returns not(x == y); strided_iterator asserts
\* equal strides itself before it does
PairNe ==
    /\ k_pc = "ready"
    /\ k_op' = "ne"
    /\ k_res' = IF step_of(k_kind, k_x) # step_of(k_kind, k_y) THEN Asserted
                ELSE IF k_kind = "range" THEN Returned(range_ne(k_x, k_y))
                ELSE Returned(strided_ne(k_x, k_y))
    /\ k_pc' = after(k_res')
    /\ UNCHANGED <<nonPairVars, k_kind, k_args, k_x, k_y, k_n, k_moves>>

\* x < y : strided_iterator asserts equal strides; range_iterator compares
\* the values and has no assert
PairLt ==
    /\ k_pc = "ready"
    /\ k_op' = "lt"
    /\ k_res' = IF k_kind = "range" THEN Returned(range_lt(k_x, k_y))
                ELSE IF k_x.stride_ # k_y.stride_ THEN Asserted
                ELSE Returned(strided_lt(k_x, k_y))
    /\ k_pc' = after(k_res')
    /\ UNCHANGED <<nonPairVars, k_kind, k_args, k_x, k_y, k_n, k_moves>>

\* x - y : asserts equal steps / strides, then divides by the step; dividing
\* by a zero step is undefined: the division traps or yields some value
PairMinus ==
    /\ k_pc = "ready"
    /\ k_op' = "minus"
    /\ \E r \in IF step_of(k_kind, k_x) # step_of(k_kind, k_y) THEN {Asserted}
                ELSE IF step_of(k_kind, k_x) = 0 THEN {Trapped, Returned(0)}
                ELSE IF k_kind = "range" THEN {Returned(range_minus(k_x, k_y))}
                ELSE {Returned(strided_minus(k_x, k_y))} :
          /\ k_res' = r
          /\ k_pc' = after(r)
    /\ UNCHANGED <<nonPairVars, k_kind, k_args, k_x, k_y, k_n, k_moves>>

\* *(x + n) : the value / position of the cursor operator+ returns
PairPlus ==
    /\ k_pc = "ready"
    /\ k_op' = "plus"
    /\ \E n \in -MaxInc..MaxInc :
          /\ k_n' = n
          /\ k_res' = IF k_kind = "range" THEN Returned(range_deref(range_plus(k_x, n)))
                      ELSE Returned(strided_deref(strided_plus(k_x, n)).p)
    /\ UNCHANGED <<nonPairVars, k_kind, k_args, k_x, k_y, k_pc, k_moves>>

\* *(n + x)
PairPlusLeft ==
    /\ k_pc = "ready"
    /\ k_op' = "plus_left"
    /\ \E n \in -MaxInc..MaxInc :
          /\ k_n' = n
          /\ k_res' = IF k_kind = "range" THEN Returned(range_deref(range_plus(k_x, n)))
                      ELSE Returned(strided_deref(strided_plus(k_x, n)).p)
    /\ UNCHANGED <<nonPairVars, k_kind, k_args, k_x, k_y, k_pc, k_moves>>

NextPair ==
    \/ PairConstruct
    \/ PairPreInc
    \/ PairPreDec
    \/ PairPlusAssign
    \/ PairMinusAssign
    \/ PairAssign
    \/ PairEq
    \/ PairNe
    \/ PairLt
    \/ PairMinus
    \/ PairPlus
    \/ PairPlusLeft

SpecPair == InitPair /\ [][NextPair]_vars

\* C22: comparing (==, !=, <) or subtracting two range cursors of different
\* step, or two strided cursors of different stride, ends in the failed
\* assertion and never returns a result.
MismatchedStepAsserts ==
    (k_op \in {"eq", "ne", "lt", "minus"} /\ step_of(k_kind, k_x) # step_of(k_kind, k_y))
        => k_res.outcome = "assert"

\* C23: building a range or strided cursor with step / stride 0 ends in a
\* failed assertion, so no cursor in use has step / stride 0, and a cursor's
\* step / stride stays what it was built with whatever ++, --, +=, -= and
\* assignment do.
ZeroStepRejected ==
    /\ (k_pc # "new" /\ (k_args.xs = 0 \/ k_args.ys = 0))
          => (k_op = "construct" /\ k_res.outcome = "assert")
    /\ (k_pc # "new" /\ k_args.xs # 0 /\ k_args.ys # 0)
          => /\ step_of(k_kind, k_x) = k_args.xs
             /\ step_of(k_kind, k_y) = k_args.ys

\* C25: for a range cursor at value v with step s, it + n and n + it are at
\* v + n * s, the value it[n] yields, the value it += n reaches and, for
\* n >= 0, the value n applications of ++ reach.
RangePlusByStep ==
    (k_kind = "range" /\ k_op \in {"plus", "plus_left"}) =>
        LET inc[i \in 0..Abs(k_n)] == IF i = 0 THEN k_x ELSE range_pre_inc(inc[i - 1])
        IN /\ k_res.val = k_x.value_ + k_n * k_x.step_
           /\ k_res.val = range_subscript(k_x, k_n)
           /\ k_res.val = range_deref(range_plus_assign(k_x, k_n))
           /\ k_n >= 0 => k_res.val = range_deref(inc[k_n])

\* ------------------------- zip_iterator::operator++(int) and operator--(int)
\*     auto tmp = *this;  (*this)++;  return tmp;
\* (*this)++ is the postfix operator itself, so the second statement calls
\* the function it belongs to.  A frame is [pc, tmp]: pc is "copy" before the
\* first statement and "recurse" before the second; control never comes back
\* from the second statement, so no frame gets to the third.
InitPostfix ==
    /\ \E n \in 1..MaxArity : \E positions \in [1..n -> 0..MaxPos] :
          q_it = zip_iterator(positions)
    /\ q_old = q_it
    /\ q_op \in {"post_inc", "post_dec"}
    /\ q_stack = <<>>
    /\ q_pc = "idle"
    /\ q_ret = <<>>
    /\ ParkZip /\ ParkStrided /\ ParkRange /\ ParkSaxpy /\ ParkViews /\ ParkTuple
    /\ ParkCursor /\ ParkWatch /\ ParkRunner

\* the caller evaluates it++ (it--)
PostfixCall ==
    /\ q_pc = "idle"
    /\ q_pc' = "called"
    /\ q_stack' = <<[pc |-> "copy", tmp |-> <<>>]>>
    /\ UNCHANGED <<nonPostfixVars, q_it, q_old, q_op, q_ret>>

\* auto tmp = *this;
PostfixCopy ==
    /\ q_pc = "called"
    /\ q_stack[Len(q_stack)].pc = "copy"
    /\ q_stack' = [q_stack EXCEPT ![Len(q_stack)] = [pc |-> "recurse", tmp |-> q_it]]
    /\ UNCHANGED <<nonPostfixVars, q_it, q_old, q_op, q_pc, q_ret>>

\* (*this)++;  ((*this)--;)  with room on the stack for another frame
PostfixRecurse ==
    /\ q_pc = "called"
    /\ q_stack[Len(q_stack)].pc = "recurse"
    /\ Len(q_stack) < MaxFrames
    /\ q_stack' = Append(q_stack, [pc |-> "copy", tmp |-> <<>>])
    /\ UNCHANGED <<nonPostfixVars, q_it, q_old, q_op, q_pc, q_ret>>

\* (*this)++;  ((*this)--;)  with the stack exhausted
PostfixOverflow ==
    /\ q_pc = "called"
    /\ q_stack[Len(q_stack)].pc = "recurse"
    /\ Len(q_stack) = MaxFrames
    /\ q_pc' = "crashed"
    /\ UNCHANGED <<nonPostfixVars, q_it, q_old, q_op, q_stack, q_ret>>

NextPostfix ==
    \/ PostfixCall
    \/ PostfixCopy
    \/ PostfixRecurse
    \/ PostfixOverflow

\* the thread that made the call keeps running until the call is over
SpecPostfix == InitPostfix /\ [][NextPostfix]_vars /\ WF_vars(NextPostfix)

\* C24: a call of it++ (it--) on a zip cursor comes to an end, returning the
\* cursor as it was before the call and leaving every component advanced
\* (retreated) by one, as ++it (--it) does.
ZipPostfixTerminates ==
    [](q_pc = "called" =>
          <>(/\ q_pc = "returned"
             /\ q_ret = q_old
             /\ q_it = IF q_op = "post_inc" THEN zip_pre_inc(q_old) ELSE zip_pre_dec(q_old)))

\* C26: for first < last and step > 0, end() - begin() is the number of
\* values the traversal from begin() to end() yields, also when last - first
\* is not a multiple of step.
RangeDistanceIsCount ==
    (/\ g_pc = "done" /\ g_first < g_last /\ g_step > 0
     /\ g_cmp.valid /\ g_cmp.x = g_last /\ g_cmp.y = g_first) => g_cmp.diff = Len(g_out)

\* C27: for every stride > 0 and every length L, the traversal of
\* strided(first, last, stride) from begin() with ++ until the cursor equals
\* end() never moves the wrapped iterator beyond last, never dereferences it
\* at last or beyond, and comes to an end.
StridedInBounds ==
    /\ [](/\ s_it.iterator_.p <= s_last.p
          /\ \A p \in s_touched : s_first.p <= p /\ p < s_last.p)
    /\ <>(s_pc = "done")

StridedInBoundsWitness ==
    /\ s_pc = "done"
    /\ Len(s_seq) = 7 /\ s_stride = 3
    /\ s_it.iterator_.p = 6
    /\ s_touched = {0, 3}

\* C28: for two zip cursors x and y over the same sequences, the begin() and
\* end() of a view of sequences of different lengths included, x - y is
\* -(y - x).
ZipDistanceAntisymmetric ==
    compared => r_diff = -zip_minus(cur_y, cur_x)

\* ---------------------------------------------------------------- StopWatch
\* A watch is [start_, duration_, is_running_]; times and durations are
\* counted in ticks of the steady clock, and t is what clock::now() returns
\* during the call.
StopWatch == [start_ |-> 0, duration_ |-> 0, is_running_ |-> FALSE]

is_running(w) == w.is_running_

start(w, t) ==
    IF ~is_running(w) THEN [w EXCEPT !.is_running_ = TRUE, !.start_ = t] ELSE w

stop(w, t) ==
    IF is_running(w) THEN [w EXCEPT !.duration_ = @ + (t - w.start_), !.is_running_ = FALSE]
    ELSE w

reset(w, t) == [stop(w, t) EXCEPT !.duration_ = 0]

\* (mutation) restart() resumes the watch without zeroing it
restart_resume(w, t) == start(w, t)

restart(w, t) == start(reset(stop(w, t), t), t)

\* (mutation) touch_ adds the time since start_ and leaves start_ where it was
touch_keep_start(w, t) == [w EXCEPT !.duration_ = @ + (t - w.start_)]

touch_(w, t) == [w EXCEPT !.duration_ = @ + (t - w.start_), !.start_ = t]

\* elapsed_seconds() : the watch it leaves and the duration it returns (the
\* code scales the tick count to seconds)
elapsed_seconds(w, t) ==
    LET touched_ == IF is_running(w) THEN touch_(w, t) ELSE w
    IN [w |-> touched_, val |-> touched_.duration_]

InitWatch ==
    /\ watch = StopWatch
    /\ now = 0
    /\ w_op = "construct"
    /\ w_ret = 0
    /\ w_ran = 0
    /\ ParkZip /\ ParkStrided /\ ParkRange /\ ParkSaxpy /\ ParkViews /\ ParkTuple
    /\ ParkCursor /\ ParkPostfix /\ ParkRunner

\* the steady clock advances; w_ran counts the ticks a running watch sees
WatchTick ==
    /\ now < MaxClock
    /\ now' = now + 1
    /\ w_ran' = IF is_running(watch) THEN w_ran + 1 ELSE w_ran
    /\ UNCHANGED <<nonWatchVars, watch, w_op, w_ret>>

WatchStart ==
    /\ watch' = start(watch, now)
    /\ w_op' = "start"
    /\ UNCHANGED <<nonWatchVars, now, w_ret, w_ran>>

WatchStop ==
    /\ watch' = stop(watch, now)
    /\ w_op' = "stop"
    /\ UNCHANGED <<nonWatchVars, now, w_ret, w_ran>>

WatchReset ==
    /\ watch' = reset(watch, now)
    /\ w_op' = "reset"
    /\ w_ran' = 0
    /\ UNCHANGED <<nonWatchVars, now, w_ret>>

WatchRestart ==
    /\ watch' = restart(watch, now)
    /\ w_op' = "restart"
    /\ w_ran' = 0
    /\ UNCHANGED <<nonWatchVars, now, w_ret>>

WatchElapsed ==
    /\ watch' = elapsed_seconds(watch, now).w
    /\ w_ret' = elapsed_seconds(watch, now).val
    /\ w_op' = "elapsed_seconds"
    /\ UNCHANGED <<nonWatchVars, now, w_ran>>

NextWatch ==
    \/ WatchTick
    \/ WatchStart
    \/ WatchStop
    \/ WatchReset
    \/ WatchRestart
    \/ WatchElapsed

SpecWatch == InitWatch /\ [][NextWatch]_vars

\* C29: against a monotone clock elapsed_seconds() returns the time the watch
\* was running since construction or the last reset() / restart(); start()
\* on a running watch and stop() on a stopped one change nothing,
\* elapsed_seconds() leaves is_running() as it was, reset() leaves the watch
\* stopped at zero and restart() leaves it running from zero.
StopWatchAccumulates ==
    /\ [](elapsed_seconds(watch, now).val = w_ran)
    /\ [][/\ now' = now =>
              /\ w_op' = "start" =>
                    /\ is_running(watch')
                    /\ is_running(watch) => watch' = watch
              /\ w_op' = "stop" =>
                    /\ ~is_running(watch')
                    /\ ~is_running(watch) => watch' = watch
              /\ w_op' = "elapsed_seconds" =>
                    /\ is_running(watch') = is_running(watch)
                    /\ w_ret' = w_ran
              /\ w_op' = "reset" =>
                    /\ ~is_running(watch')
                    /\ elapsed_seconds(watch', now').val = 0
              /\ w_op' = "restart" =>
                    /\ is_running(watch')
                    /\ elapsed_seconds(watch', now').val = 0]_vars

StopWatchAccumulatesWitness ==
    /\ w_op = "elapsed_seconds"
    /\ is_running(watch)
    /\ now = 3
    /\ w_ret = 2

\* ---------------------------------------------------- Runner::execute<N>
\* The functor is any class with reset(), operator()(policy) and check();
\* what check() answers in cycle i is n_checks[i].  n_pc names the statement
\* execute is at; a tick of the clock at a statement is time spent in it
\* (before the statement reads the clock, if it does).
InitRunner ==
    /\ n_N \in 0..MaxCycles
    /\ n_checks \in [1..n_N -> BOOLEAN]
    /\ n_i = 0
    /\ n_pc = "test"
    /\ n_watch = StopWatch
    /\ n_now = 0
    /\ n_correct = <<>>
    /\ n_times = <<>>
    /\ n_calls = <<>>
    /\ n_timed = <<>>
    /\ n_ret = "none"
    /\ ParkZip /\ ParkStrided /\ ParkRange /\ ParkSaxpy /\ ParkViews /\ ParkTuple
    /\ ParkCursor /\ ParkPostfix /\ ParkWatch

\* the clock advances while execute is at some statement
RunnerTick ==
    /\ n_pc # "returned"
    /\ n_now < MaxClock
    /\ n_now' = n_now + 1
    /\ n_timed' = IF n_pc \in {"functor", "stop"}
                  THEN [n_timed EXCEPT ![Len(n_timed)] = @ + 1] ELSE n_timed
    /\ UNCHANGED <<nonRunnerVars, n_N, n_checks, n_i, n_pc, n_watch, n_correct, n_times,
                   n_calls, n_ret>>

\* i < N
RunnerTest ==
    /\ n_pc = "test"
    /\ n_pc' = IF n_i < n_N THEN "reset" ELSE "return"
    /\ UNCHANGED <<nonRunnerVars, n_N, n_checks, n_i, n_watch, n_now, n_correct, n_times,
                   n_calls, n_timed, n_ret>>

\* functor.reset();
RunnerReset ==
    /\ n_pc = "reset"
    /\ n_calls' = Append(n_calls, "reset")
    /\ n_pc' = "restart"
    /\ UNCHANGED <<nonRunnerVars, n_N, n_checks, n_i, n_watch, n_now, n_correct, n_times,
                   n_timed, n_ret>>

\* watch.restart();
RunnerRestart ==
    /\ n_pc = "restart"
    /\ n_watch' = restart(n_watch, n_now)
    /\ n_timed' = Append(n_timed, 0)
    /\ n_pc' = "functor"
    /\ UNCHANGED <<nonRunnerVars, n_N, n_checks, n_i, n_now, n_correct, n_times, n_calls, n_ret>>

\* functor(policy);
RunnerFunctor ==
    /\ n_pc = "functor"
    /\ n_calls' = Append(n_calls, "call")
    /\ n_pc' = "stop"
    /\ UNCHANGED <<nonRunnerVars, n_N, n_checks, n_i, n_watch, n_now, n_correct, n_times,
                   n_timed, n_ret>>

\* watch.stop();
RunnerStop ==
    /\ n_pc = "stop"
    /\ n_watch' = stop(n_watch, n_now)
    /\ n_pc' = "check"
    /\ UNCHANGED <<nonRunnerVars, n_N, n_checks, n_i, n_now, n_correct, n_times, n_calls,
                   n_timed, n_ret>>

\* correct.push_back(functor.check());
RunnerCheck ==
    /\ n_pc = "check"
    /\ n_calls' = Append(n_calls, "check")
    /\ n_correct' = Append(n_correct, n_checks[n_i + 1])
    /\ n_pc' = "time"
    /\ UNCHANGED <<nonRunnerVars, n_N, n_checks, n_i, n_watch, n_now, n_times, n_timed, n_ret>>

\* times.push_back(watch.elapsed_seconds());  i++
RunnerTime ==
    /\ n_pc = "time"
    /\ n_watch' = elapsed_seconds(n_watch, n_now).w
    /\ n_times' = Append(n_times, elapsed_seconds(n_watch, n_now).val)
    /\ n_i' = n_i + 1
    /\ n_pc' = "test"
    /\ UNCHANGED <<nonRunnerVars, n_N, n_checks, n_now, n_correct, n_calls, n_timed, n_ret>>

\* return std::all_of(correct.begin(), correct.end(), [](auto val){return val;});
RunnerReturn ==
    /\ n_pc = "return"
    /\ n_ret' = (\A j \in 1..Len(n_correct) : n_correct[j])
    /\ n_pc' = "returned"
    /\ UNCHANGED <<nonRunnerVars, n_N, n_checks, n_i, n_watch, n_now, n_correct, n_times,
                   n_calls, n_timed>>

NextRunner ==
    \/ RunnerTick
    \/ RunnerTest
    \/ RunnerReset
    \/ RunnerRestart
    \/ RunnerFunctor
    \/ RunnerStop
    \/ RunnerCheck
    \/ RunnerTime
    \/ RunnerReturn

SpecRunner == InitRunner /\ [][NextRunner]_vars

\* C30: execute<N> runs exactly N cycles, each calling reset(),
\* functor(policy), check() in this order; the stopwatch runs only from
\* restart() to stop() around functor(policy), never during reset() or
\* check(), and each cycle's time starts from zero; execute returns true
\* iff check() answered true in every cycle.
RunnerCycles ==
    /\ Len(n_calls) <= 3 * n_N
    /\ \A j \in 1..Len(n_calls) :
          n_calls[j] = <<"reset", "call", "check">>[((j - 1) % 3) + 1]
    /\ is_running(n_watch) <=> n_pc \in {"functor", "stop"}
    /\ \A c \in 1..Len(n_times) : n_times[c] = n_timed[c]
    /\ n_pc \in {"return", "returned"} =>
          /\ Len(n_calls) = 3 * n_N
          /\ Len(n_times) = n_N
    /\ n_pc = "returned" => (n_ret <=> \A c \in 1..n_N : n_checks[c])

RunnerCyclesWitness ==
    /\ n_pc = "returned"
    /\ n_N = 2
    /\ n_checks = <<TRUE, FALSE>>
    /\ n_ret = FALSE
    /\ n_times = <<1, 1>>
    /\ n_now = 4

====
